---- MODULE Spec2Model ----
(***************************************************************************)
(* AgentPlane workflow engine: WorkflowService.execute, the graph walk of  *)
(* WorkflowProcessor, the node registry and the built-in nodes.            *)
(*                                                                         *)
(* Text values a node inspects (prompt, llm_response) are sequences of     *)
(* one-character strings so that strip/lower/float can be computed.        *)
(* Identifiers (node ids, handles, key names) are plain strings.           *)
(***************************************************************************)
EXTENDS Integers, Sequences, FiniteSets, TLC

\* ---------------------------------------------------------------- bounds
\* Largest number of node steps of one run the model follows.
MaxSteps == 6

\* Step budget a caller would configure for the loop protection of the
\* executor (spec 4.1, "maximum step count").
StepBudget == 4

\* ------------------------------------------------------- string helpers
Digits == {"0", "1", "2", "3", "4", "5", "6", "7", "8", "9"}

DigitVal(c) ==
    CASE c = "0" -> 0 [] c = "1" -> 1 [] c = "2" -> 2 [] c = "3" -> 3
      [] c = "4" -> 4 [] c = "5" -> 5 [] c = "6" -> 6 [] c = "7" -> 7
      [] c = "8" -> 8 [] OTHER -> 9

\* str.lower() on the characters the model uses
LowerChar(c) ==
    CASE c = "O" -> "o" [] c = "K" -> "k" [] c = "A" -> "a" [] OTHER -> c

Lower(s) == [i \in 1..Len(s) |-> LowerChar(s[i])]

RECURSIVE LStrip(_)
LStrip(s) == IF s # <<>> /\ Head(s) = " " THEN LStrip(Tail(s)) ELSE s

RECURSIVE RStrip(_)
RStrip(s) ==
    IF s # <<>> /\ s[Len(s)] = " " THEN RStrip(SubSeq(s, 1, Len(s) - 1)) ELSE s

\* str.strip()
Strip(s) == RStrip(LStrip(s))

\* str.startswith / str.endswith / the `in` operator on strings
StartsWith(s, p) == Len(p) <= Len(s) /\ SubSeq(s, 1, Len(p)) = p

EndsWith(s, p) == Len(p) <= Len(s) /\ SubSeq(s, Len(s) - Len(p) + 1, Len(s)) = p

Contains(s, p) ==
    \E i \in 0..(Len(s) - Len(p)) : SubSeq(s, i + 1, i + Len(p)) = p

\* float(s) succeeds (decimal digit strings; float() strips blanks itself)
IsNumeric(s) ==
    LET t == Strip(s) IN t # <<>> /\ \A i \in 1..Len(t) : t[i] \in Digits

RECURSIVE DigitsVal(_)
DigitsVal(t) ==
    IF t = <<>> THEN 0
    ELSE 10 * DigitsVal(SubSeq(t, 1, Len(t) - 1)) + DigitVal(t[Len(t)])

\* float(s) for a string float() accepts
FloatOf(s) == DigitsVal(Strip(s))

\* re.compile(p) raises re.error: an unbalanced group or class opener
RegexInvalid(p) == \E i \in 1..Len(p) : p[i] \in {"(", "["}

\* re.compile(p, re.IGNORECASE).search(s) for a pattern of literal characters
RegexSearch(p, s) == Contains(Lower(s), Lower(p))

\* ------------------------------------------------------- run-state helpers
\* state[key] = value
Put(s, k, v) == [x \in (DOMAIN s) \cup {k} |-> IF x = k THEN v ELSE s[x]]

Has(s, k) == k \in DOMAIN s

EmptyState == [x \in {} |-> 0]

\* -------------------------------------------------- operator evaluation
\* Mutant: the numeric operators compare the literal against the field
IfElseOperator_OperandsSwapped(op, field_str, condition_str) ==
    LET B(b) == IF b THEN "true" ELSE "false" IN
    IF ~(IsNumeric(field_str) /\ IsNumeric(condition_str)) THEN "error"
    ELSE CASE op = "greater_than" -> B(FloatOf(condition_str) > FloatOf(field_str))
           [] op = "less_than" -> B(FloatOf(condition_str) < FloatOf(field_str))
           [] op = "greater_equal" -> B(FloatOf(condition_str) >= FloatOf(field_str))
           [] op = "less_equal" -> B(FloatOf(condition_str) <= FloatOf(field_str))
           [] OTHER -> "error"

\* Mutant: the Conditional compares strings as they are written, without
\* folding their case
IfElseOperator_CaseSensitive(op, field_str, condition_str) ==
    LET B(b) == IF b THEN "true" ELSE "false" IN
    CASE op = "equals" -> B(field_str = condition_str)
      [] op = "not_equals" -> B(field_str # condition_str)
      [] op = "contains" -> B(Contains(field_str, condition_str))
      [] op = "not_contains" -> B(~Contains(field_str, condition_str))
      [] op = "starts_with" -> B(StartsWith(field_str, condition_str))
      [] op = "ends_with" -> B(EndsWith(field_str, condition_str))
      [] op = "regex" ->
            IF RegexInvalid(condition_str) THEN "error"
            ELSE B(RegexSearch(condition_str, field_str))
      [] op \in {"greater_than", "less_than", "greater_equal", "less_equal"} ->
            IF ~(IsNumeric(field_str) /\ IsNumeric(condition_str)) THEN "error"
            ELSE CASE op = "greater_than" -> B(FloatOf(field_str) > FloatOf(condition_str))
                   [] op = "less_than" -> B(FloatOf(field_str) < FloatOf(condition_str))
                   [] op = "greater_equal" -> B(FloatOf(field_str) >= FloatOf(condition_str))
                   [] OTHER -> B(FloatOf(field_str) <= FloatOf(condition_str))
      [] op = "is_empty" -> B(field_str = <<>>)
      [] op = "is_not_empty" -> B(field_str # <<>>)
      [] OTHER -> "error"

\* IfElseNode._evaluate_condition on the stripped string casts of the field
\* value and the literal: "true", "false", or "error" where the code returns
\* (False, message) from an except clause or the unknown-operator branch.
IfElseOperator(op, field_str, condition_str) ==
    LET B(b) == IF b THEN "true" ELSE "false" IN
    CASE op = "equals" -> B(Lower(field_str) = Lower(condition_str))
      [] op = "not_equals" -> B(Lower(field_str) # Lower(condition_str))
      [] op = "contains" -> B(Contains(Lower(field_str), Lower(condition_str)))
      [] op = "not_contains" -> B(~Contains(Lower(field_str), Lower(condition_str)))
      [] op = "starts_with" -> B(StartsWith(Lower(field_str), Lower(condition_str)))
      [] op = "ends_with" -> B(EndsWith(Lower(field_str), Lower(condition_str)))
      [] op = "regex" ->
            IF RegexInvalid(condition_str) THEN "error"
            ELSE B(RegexSearch(condition_str, field_str))
      [] op \in {"greater_than", "less_than", "greater_equal", "less_equal"} ->
            IF ~(IsNumeric(field_str) /\ IsNumeric(condition_str)) THEN "error"
            ELSE CASE op = "greater_than" -> B(FloatOf(field_str) > FloatOf(condition_str))
                   [] op = "less_than" -> B(FloatOf(field_str) < FloatOf(condition_str))
                   [] op = "greater_equal" -> B(FloatOf(field_str) >= FloatOf(condition_str))
                   [] OTHER -> B(FloatOf(field_str) <= FloatOf(condition_str))
      [] op = "is_empty" -> B(field_str = <<>>)
      [] op = "is_not_empty" -> B(field_str # <<>>)
      [] OTHER -> "error"

\* IfElseNode._evaluate_condition: the boolean it returns
EvaluateCondition(cfg, s) ==
    IF ~Has(s, cfg.condition_field) THEN FALSE
    ELSE IfElseOperator(cfg.condition_operator,
                        Strip(s[cfg.condition_field]),
                        Strip(cfg.condition_value)) = "true"

\* Mutant: a numeric operator on a non-numeric operand counts as a match
SwitchOperator_NonNumericMatches(op, field_str, case_value) ==
    LET B(b) == IF b THEN "true" ELSE "false" IN
    IF op \in {"greater_than", "less_than", "greater_equal", "less_equal"}
    THEN IF ~(IsNumeric(field_str) /\ IsNumeric(case_value)) THEN "true"
         ELSE CASE op = "greater_than" -> B(FloatOf(field_str) > FloatOf(case_value))
                [] op = "less_than" -> B(FloatOf(field_str) < FloatOf(case_value))
                [] op = "greater_equal" -> B(FloatOf(field_str) >= FloatOf(case_value))
                [] OTHER -> B(FloatOf(field_str) <= FloatOf(case_value))
    ELSE IF op = "is_not_empty" THEN B(field_str # <<>>)
    ELSE B(Lower(field_str) = Lower(case_value))

\* One case of SwitchNode._evaluate_switch: "true" (match), "false", or
\* "error" where the loop body executes `continue`.
SwitchOperator(op, field_str, case_value) ==
    LET B(b) == IF b THEN "true" ELSE "false" IN
    CASE op = "equals" -> B(Lower(field_str) = Lower(case_value))
      [] op = "not_equals" -> B(Lower(field_str) # Lower(case_value))
      [] op = "contains" -> B(Contains(Lower(field_str), Lower(case_value)))
      [] op = "not_contains" -> B(~Contains(Lower(field_str), Lower(case_value)))
      [] op = "starts_with" -> B(StartsWith(Lower(field_str), Lower(case_value)))
      [] op = "ends_with" -> B(EndsWith(Lower(field_str), Lower(case_value)))
      [] op = "regex" ->
            IF RegexInvalid(case_value) THEN "error"
            ELSE B(RegexSearch(case_value, field_str))
      [] op = "greater_than" ->
            IF ~(IsNumeric(field_str) /\ IsNumeric(case_value)) THEN "error"
            ELSE B(FloatOf(field_str) > FloatOf(case_value))
      [] op = "less_than" ->
            IF ~(IsNumeric(field_str) /\ IsNumeric(case_value)) THEN "error"
            ELSE B(FloatOf(field_str) < FloatOf(case_value))
      [] op = "greater_equal" ->
            IF ~(IsNumeric(field_str) /\ IsNumeric(case_value)) THEN "error"
            ELSE B(FloatOf(field_str) >= FloatOf(case_value))
      [] op = "less_equal" ->
            IF ~(IsNumeric(field_str) /\ IsNumeric(case_value)) THEN "error"
            ELSE B(FloatOf(field_str) <= FloatOf(case_value))
      [] op = "is_empty" -> B(field_str = <<>>)
      [] op = "is_not_empty" -> B(field_str # <<>>)
      [] OTHER -> "error"

\* Mutant: the loop keeps going after a match, so the last matching case
\* from case i on decides
SwitchFrom_LastMatch(cases, i, field_str, default_case) ==
    LET Matching == { j \in i..Len(cases) :
                        SwitchOperator(cases[j].operator, field_str,
                                       Strip(cases[j].value)) = "true" }
    IN  IF Matching = {} THEN default_case
        ELSE cases[CHOOSE j \in Matching : \A k \in Matching : k <= j].output

\* Mutant: a case that cannot be evaluated ends the loop with the default
\* label
RECURSIVE SwitchFrom_ErrorEndsLoop(_, _, _, _)
SwitchFrom_ErrorEndsLoop(cases, i, field_str, default_case) ==
    IF i > Len(cases) THEN default_case
    ELSE LET r == SwitchOperator(cases[i].operator, field_str, Strip(cases[i].value))
         IN  IF r = "true" THEN cases[i].output
             ELSE IF r = "error" THEN default_case
             ELSE SwitchFrom_ErrorEndsLoop(cases, i + 1, field_str, default_case)

\* The for loop of SwitchNode._evaluate_switch from case i on
RECURSIVE SwitchFrom(_, _, _, _)
SwitchFrom(cases, i, field_str, default_case) ==
    IF i > Len(cases) THEN default_case
    ELSE IF SwitchOperator(cases[i].operator, field_str, Strip(cases[i].value)) = "true"
         THEN cases[i].output
         ELSE SwitchFrom(cases, i + 1, field_str, default_case)

\* SwitchNode._evaluate_switch: the output handle it returns
EvaluateSwitch(cfg, s) ==
    IF ~Has(s, cfg.switch_field) THEN cfg.default_case
    ELSE SwitchFrom(cfg.switch_cases, 1, Strip(s[cfg.switch_field]), cfg.default_case)

\* ------------------------------------------------------------ the registry
\* Mutant: the start entry declares a dependency on the LLM service
NODE_REGISTRY_StartDeclaresLLM ==
    [t \in {"start", "llm", "end", "mcp_tool", "rest_api", "intent_extractor",
            "if_else", "switch"} |->
        CASE t \in {"llm", "start"} -> {"llm_service"}
          [] t = "rest_api" -> {"rest_api_service", "llm_service"}
          [] OTHER -> {}]

\* Mutant: a node type without a node class is registered
NODE_REGISTRY_ExtraType ==
    [t \in {"start", "llm", "end", "mcp_tool", "rest_api", "intent_extractor",
            "if_else", "switch", "database"} |->
        CASE t = "llm" -> {"llm_service"}
          [] t = "rest_api" -> {"rest_api_service", "llm_service"}
          [] OTHER -> {}]

\* Mutant: the rest_api entry does not declare rest_api_service
NODE_REGISTRY_RestApiUndeclared ==
    [t \in {"start", "llm", "end", "mcp_tool", "rest_api", "intent_extractor",
            "if_else", "switch"} |->
        CASE t \in {"llm", "rest_api"} -> {"llm_service"}
          [] OTHER -> {}]

\* NODE_REGISTRY: node type -> the capability names it declares
NODE_REGISTRY ==
    [t \in {"start", "llm", "end", "mcp_tool", "rest_api", "intent_extractor",
            "if_else", "switch"} |->
        CASE t = "llm" -> {"llm_service"}
          [] t = "rest_api" -> {"rest_api_service", "llm_service"}
          [] OTHER -> {}]

\* self.services of WorkflowService: the provider map its wiring builds
ServiceWiring == {"llm_service"}

\* ------------------------------------------------------------ text values
\* Abbreviated stand-ins for the texts the nodes store
ResponseText == <<"o", "k">>

ErrorText == <<"e", "r", "r">>

\* Absent optional value (None)
None == "None"

\* ------------------------------------------------------------ node bodies
\* Each node body yields [state |-> the state process returns,
\*                        calls |-> the capability invocations it made].

\* StartNode.process: pass-through marker
StartProcess(s) == [state |-> s, calls |-> <<>>]

\* EndNode.process: pass-through; copies llm_response to the conventional
\* output key final_llm_response
EndProcess(s) ==
    [state |-> IF Has(s, "llm_response")
               THEN Put(s, "final_llm_response", s["llm_response"])
               ELSE s,
     calls |-> <<>>]

\* IfElseNode.process
IfElseProcess(id, cfg, s) ==
    IF cfg.condition_field = ""
    THEN [state |-> Put(Put(Put(Put(Put(s,
                        "if_else_result", "error"),
                        "if_else_reason", "no_condition_field"),
                        "success", FALSE),
                        "error", "no_condition_field"),
                        "next_output_handle", "false"),
          calls |-> <<>>]
    ELSE LET condition_result == EvaluateCondition(cfg, s)
             output_handle == IF condition_result THEN "true" ELSE "false"
         IN  [state |-> Put(Put(Put(Put(Put(Put(Put(Put(s,
                        "if_else_result", output_handle),
                        "if_else_reason", "evaluated"),
                        "if_else_field", cfg.condition_field),
                        "if_else_operator", cfg.condition_operator),
                        "if_else_value", cfg.condition_value),
                        "if_else_metadata", id),
                        "next_output_handle", id \o "-" \o output_handle),
                        "success", TRUE),
              calls |-> <<>>]

\* Mutant: the Switch node prefixes its handle with the node id, as the
\* Conditional node does
SwitchProcess_PrefixedHandle(id, cfg, s) ==
    LET output_handle ==
            IF cfg.switch_field = "" \/ cfg.switch_cases = <<>>
            THEN cfg.default_case ELSE EvaluateSwitch(cfg, s)
    IN  [state |-> Put(Put(Put(s,
                        "switch_result", output_handle),
                        "next_output_handle", id \o "-" \o output_handle),
                        "success", TRUE),
         calls |-> <<>>]

\* SwitchNode.process
SwitchProcess(id, cfg, s) ==
    IF cfg.switch_field = "" \/ cfg.switch_cases = <<>>
    THEN [state |-> Put(Put(Put(Put(Put(s,
                        "switch_result", "error"),
                        "switch_reason", "misconfigured"),
                        "success", FALSE),
                        "error", "misconfigured"),
                        "next_output_handle", cfg.default_case),
          calls |-> <<>>]
    ELSE LET output_handle == EvaluateSwitch(cfg, s)
         IN  [state |-> Put(Put(Put(Put(Put(Put(Put(s,
                        "switch_result", output_handle),
                        "switch_reason", "evaluated"),
                        "switch_field", cfg.switch_field),
                        "switch_cases_count", Len(cfg.switch_cases)),
                        "switch_metadata", id),
                        "next_output_handle", output_handle),
                        "success", TRUE),
              calls |-> <<>>]

\* Mutant: a successful LLM call leaves a success = false of an earlier node
\* in place
LLMProcess_StickySuccess(cfg, injected, s, lookup, invoke) ==
    LET prompt == IF Has(s, "processed_prompt") THEN s["processed_prompt"]
                  ELSE IF Has(s, "prompt") THEN s["prompt"] ELSE <<>>
        looked == "llm_service" \in injected /\ cfg.link # ""
        fetched == looked /\ lookup = "found"
        ok == fetched /\ invoke = "ok"
    IN  IF prompt = <<>>
        THEN [state |-> Put(s, "llm_response", ErrorText), calls |-> <<>>]
        ELSE [state |->
                IF ok
                THEN Put(Put(Put(s, "llm_response", ResponseText),
                                    "llm_metadata", cfg.link),
                                    "success",
                                    IF Has(s, "success") THEN s["success"] ELSE TRUE)
                ELSE Put(Put(Put(s, "llm_response", ErrorText),
                                    "llm_metadata", "error"),
                                    "success", FALSE),
              calls |-> (IF looked THEN <<"llm_lookup">> ELSE <<>>)
                        \o (IF fetched THEN <<"llm_invoke">> ELSE <<>>)]

\* LLMPromptNode.process with _fetch_llm_entity; lookup is what
\* llm_service.get_by_id yields, invoke what llm_service.invoke yields
LLMProcess(cfg, injected, s, lookup, invoke) ==
    LET prompt == IF Has(s, "processed_prompt") THEN s["processed_prompt"]
                  ELSE IF Has(s, "prompt") THEN s["prompt"] ELSE <<>>
        looked == "llm_service" \in injected /\ cfg.link # ""
        fetched == looked /\ lookup = "found"
        ok == fetched /\ invoke = "ok"
    IN  IF prompt = <<>>
        THEN [state |-> Put(s, "llm_response", ErrorText), calls |-> <<>>]
        ELSE [state |->
                IF ok
                THEN Put(Put(Put(s, "llm_response", ResponseText),
                                    "llm_metadata", cfg.link),
                                    "success", TRUE)
                ELSE Put(Put(Put(s, "llm_response", ErrorText),
                                    "llm_metadata", "error"),
                                    "success", FALSE),
              calls |-> (IF looked THEN <<"llm_lookup">> ELSE <<>>)
                        \o (IF fetched THEN <<"llm_invoke">> ELSE <<>>)]

\* state.get(a) or state.get(b) or state.get(c, ""): the first non-empty one
FirstTruthy(s, keys) ==
    IF \E i \in 1..Len(keys) : Has(s, keys[i]) /\ s[keys[i]] # <<>>
    THEN s[keys[CHOOSE i \in 1..Len(keys) :
                /\ Has(s, keys[i]) /\ s[keys[i]] # <<>>
                /\ \A j \in 1..(i - 1) : ~(Has(s, keys[j]) /\ s[keys[j]] # <<>>)]]
    ELSE <<>>

\* IntentExtractorNode.process; classify is what classify_intent yields
IntentProcess(cfg, s, classify) ==
    LET user_input == FirstTruthy(s, <<"user_input", "prompt", "message">>)
    IN  IF user_input = <<>>
        THEN [state |-> Put(Put(Put(s,
                        "intent_extraction_response", "no_user_input"),
                        "success", FALSE),
                        "error", "no_user_input"),
              calls |-> <<>>]
        ELSE [state |->
                IF classify = "ok"
                THEN Put(Put(Put(Put(Put(Put(s,
                        "intent_extraction_response", "agent_creation"),
                        "extracted_intent", "agent_creation"),
                        "intent_confidence", 1),
                        "original_user_input", user_input),
                        "intent_extraction_metadata", "zero_shot"),
                        "success", TRUE)
                ELSE Put(Put(Put(Put(Put(Put(s,
                        "intent_extraction_response", "failed"),
                        "extracted_intent", "error"),
                        "intent_confidence", 0),
                        "intent_extraction_metadata", "error"),
                        "success", FALSE),
                        "error", "classifier_error"),
              calls |-> <<"classifier">>]

\* ------------------------------------------------------------ RestApiNode
\* Outcome of one HTTP attempt: a response status, or TransportFailure for
\* an exception raised by the request.
TransportFailure == -1

HttpOutcomes == {200, 302, 404, 500, 503, TransportFailure}

\* The name under which an HTTP attempt with the given outcome is recorded
\* among the capability invocations
HttpCall(out) ==
    CASE out = 200 -> "http:200" [] out = 302 -> "http:302"
      [] out = 404 -> "http:404"
      [] out = 500 -> "http:500" [] out = 503 -> "http:503"
      [] OTHER -> "http:failed"

\* The attempt loop of RestApiNode._make_http_request from `attempt` on
\* (0-based, as range(retry_count + 1)); outs[i] is the outcome of the i-th
\* attempt.  Yields the returned record and the number of attempts made.
RECURSIVE HttpAttempt(_, _, _)
HttpAttempt(outs, retry_count, attempt) ==
    LET out == outs[attempt + 1] IN
    IF out = TransportFailure
    THEN IF attempt < retry_count
         THEN HttpAttempt(outs, retry_count, attempt + 1)
         ELSE [status_code |-> 0, success |-> FALSE, attempts |-> attempt + 1]
    ELSE IF out < 500
         THEN [status_code |-> out, success |-> (200 <= out /\ out < 300),
               attempts |-> attempt + 1]
         ELSE IF attempt < retry_count
              THEN HttpAttempt(outs, retry_count, attempt + 1)
              ELSE [status_code |-> out, success |-> (200 <= out /\ out < 300),
                    attempts |-> attempt + 1]

\* The attempt loop with the retry decisions as parameters: whether a 5xx
\* response, a 4xx response and a transport failure are tried again
RECURSIVE HttpAttemptWith(_, _, _, _)
HttpAttemptWith(outs, retry_count, attempt, retried) ==
    LET out == outs[attempt + 1]
        class == IF out = TransportFailure THEN "transport"
                 ELSE IF out >= 500 THEN "server"
                 ELSE IF out >= 400 THEN "client" ELSE "ok"
    IN  IF class \in retried /\ attempt < retry_count
        THEN HttpAttemptWith(outs, retry_count, attempt + 1, retried)
        ELSE [status_code |-> IF out = TransportFailure THEN 0 ELSE out,
              success |-> (200 <= out /\ out < 300),
              attempts |-> attempt + 1]

\* Mutant: a 5xx response is returned at once
MakeHttpRequest_ServerErrorFinal(outs, retry_count) ==
    HttpAttemptWith(outs, retry_count, 0, {"transport"})

\* Mutant: a 4xx response is tried again like a 5xx response
MakeHttpRequest_ClientErrorRetried(outs, retry_count) ==
    HttpAttemptWith(outs, retry_count, 0, {"transport", "server", "client"})

\* Mutant: a 3xx response counts as a success
MakeHttpRequest_RedirectSucceeds(outs, retry_count) ==
    LET r == HttpAttempt(outs, retry_count, 0)
    IN  [r EXCEPT !.success = (200 <= r.status_code /\ r.status_code < 400)]

\* Mutant: a transport failure is reported after the first attempt
MakeHttpRequest_TransportFinal(outs, retry_count) ==
    HttpAttemptWith(outs, retry_count, 0, {"server"})

\* Mutant: every response below 500, 5xx response and transport failure alike is
\* followed by another attempt while the budget lasts
MakeHttpRequest_AlwaysExhausts(outs, retry_count) ==
    HttpAttemptWith(outs, retry_count, 0, {"transport", "server", "client", "ok"})

\* RestApiNode._make_http_request
MakeHttpRequest(outs, retry_count) == HttpAttempt(outs, retry_count, 0)

\* The except clause of RestApiNode.process: error_state
RestApiErrorState(s) ==
    Put(Put(Put(Put(s, "response", None), "status_code", 0),
                       "success", FALSE), "error", "rest_api_error")

\* The state RestApiNode.process returns when no intelligence LLM is
\* available: a fresh mapping, not a copy of the state it was given
RestApiRequiresLLM ==
    [k \in {"success", "error", "requires_llm"} |->
        CASE k = "success" -> FALSE
          [] k = "error" -> "requires_llm_configuration"
          [] OTHER -> TRUE]

\* Mutant: a response of the model that is not a JSON object is used as the
\* request parameters and the HTTP request is issued
RestApiProcess_MalformedStillCalls(cfg, injected, s, api, lookup, invoke, outs) ==
    LET apiLooked == "rest_api_service" \in injected /\ cfg.link # ""
        apiFetched == apiLooked /\ api = "found"
        llmLooked == apiFetched /\ cfg.intel_link # "" /\ "llm_service" \in injected
        llm_entity == llmLooked /\ lookup \in {"found", "disabled"}
        built == llm_entity /\ invoke # "raises"
        response == MakeHttpRequest(outs, cfg.retry_count)
        made == (IF apiLooked THEN <<"api_lookup">> ELSE <<>>)
                \o (IF llmLooked THEN <<"llm_lookup">> ELSE <<>>)
                \o (IF llm_entity THEN <<"llm_invoke">> ELSE <<>>)
                \o (IF built
                    THEN [i \in 1..response.attempts |-> HttpCall(outs[i])]
                    ELSE <<>>)
    IN  [state |->
            IF ~apiFetched THEN RestApiErrorState(s)
            ELSE IF ~llm_entity THEN RestApiRequiresLLM
            ELSE IF ~built THEN RestApiErrorState(s)
            ELSE Put(Put(Put(Put(s,
                        "response", "data"),
                        "status_code", response.status_code),
                        "http_response", response.attempts),
                        "success", response.success),
         calls |-> made]

\* RestApiNode.process with _fetch_rest_api_entity, _fetch_llm_entity and
\* _intelligent_request_builder.  api is what rest_api_service.get_by_id
\* yields, lookup what llm_service.get_by_id yields, invoke what
\* llm_service.invoke yields ("ok": a JSON object; "malformed": anything
\* else; "raises"), outs the outcomes of the HTTP attempts.
RestApiProcess(cfg, injected, s, api, lookup, invoke, outs) ==
    LET apiLooked == "rest_api_service" \in injected /\ cfg.link # ""
        apiFetched == apiLooked /\ api = "found"
        llmLooked == apiFetched /\ cfg.intel_link # "" /\ "llm_service" \in injected
        llm_entity == llmLooked /\ lookup \in {"found", "disabled"}
        built == llm_entity /\ invoke = "ok"
        response == MakeHttpRequest(outs, cfg.retry_count)
        made == (IF apiLooked THEN <<"api_lookup">> ELSE <<>>)
                \o (IF llmLooked THEN <<"llm_lookup">> ELSE <<>>)
                \o (IF llm_entity THEN <<"llm_invoke">> ELSE <<>>)
                \o (IF built
                    THEN [i \in 1..response.attempts |-> HttpCall(outs[i])]
                    ELSE <<>>)
    IN  [state |->
            IF ~apiFetched THEN RestApiErrorState(s)
            ELSE IF ~llm_entity THEN RestApiRequiresLLM
            ELSE IF ~built THEN RestApiErrorState(s)
            ELSE Put(Put(Put(Put(s,
                        "response", "data"),
                        "status_code", response.status_code),
                        "http_response", response.attempts),
                        "success", response.success),
         calls |-> made]

\* ------------------------------------------------- workflow definitions
\* Edge without a sourceHandle
NoHandle == "<none>"

\* A node config with every key the nodes read; the literal values are the
\* defaults of config.get except retry_count, which the definitions set
\* (no retry here; RestApiConfigs varies it)
BaseConfig ==
    [condition_field |-> "", condition_operator |-> "equals",
     condition_value |-> <<>>, switch_field |-> "", switch_cases |-> <<>>,
     default_case |-> "default", link |-> "", intel_link |-> "",
     retry_count |-> 0]

Node(id, type, config) == [id |-> id, type |-> type, config |-> config]

Edge(source, handle, target) ==
    [source |-> source, sourceHandle |-> handle, target |-> target]

\* Node kinds a definition of the model draws its inner nodes from
IfElseAmount ==
    [BaseConfig EXCEPT !.condition_field = "prompt",
                          !.condition_operator = "greater_than",
                          !.condition_value = <<"1", "0">>]

IfElseNoField == BaseConfig

SwitchStatus ==
    [BaseConfig EXCEPT !.switch_field = "prompt",
                          !.switch_cases = << [value |-> <<"o", "k">>,
                                               operator |-> "equals",
                                               output |-> "path_ok"] >>,
                          !.default_case = "path_default"]

LLMLinked == [BaseConfig EXCEPT !.link = "llm1"]

RestApiIntel ==
    [BaseConfig EXCEPT !.link = "api1", !.intel_link = "llm1"]

RestApiNoIntel == [BaseConfig EXCEPT !.link = "api1"]

InnerKinds ==
    { <<"if_else", IfElseAmount>>, <<"if_else", IfElseNoField>>,
      <<"switch", SwitchStatus>>, <<"llm", LLMLinked>>,
      <<"intent_extractor", BaseConfig>>, <<"rest_api", RestApiIntel>>,
      <<"rest_api", RestApiNoIntel>>, <<"database", BaseConfig>> }

SecondKinds ==
    { <<"llm", LLMLinked>>, <<"rest_api", RestApiNoIntel>> }

\* sourceHandles of the two edges that leave the first inner node
HandlePairs ==
    { <<NoHandle, NoHandle>>, <<"n2-true", "n2-false">>,
      <<"path_ok", "path_default">>, <<"false", "n2-false">> }

\* Keep the elements of seq whose index is in keep
RECURSIVE Select(_, _, _)
Select(seq, keep, i) ==
    IF i > Len(seq) THEN <<>>
    ELSE (IF i \in keep THEN <<seq[i]>> ELSE <<>>) \o Select(seq, keep, i + 1)

\* start n1 -> n2 -> {n3, n4}, n3 -> n4 or back to n2, end n4 -> n2
GraphDefinitions ==
    { [nodes |-> << Node("n1", first, BaseConfig), Node("n2", x[1], x[2]),
                    Node("n3", y[1], y[2]), Node("n4", "end", BaseConfig) >>,
       edges |-> Select(<< Edge("n1", NoHandle, "n2"),
                           Edge("n2", h[1], "n3"),
                           Edge("n2", h[2], "n4"),
                           Edge("n3", NoHandle, back),
                           Edge("n4", NoHandle, "n2") >>, keep, 1)] :
        first \in {"start"}, x \in InnerKinds, y \in SecondKinds,
        h \in HandlePairs, back \in {"n4", "n2"},
        keep \in {{1, 2, 3, 4}, {1, 2, 3, 4, 5}, {1, 3}} }

\* Definitions the configuration checks reject, and a two-node workflow
DegenerateDefinitions ==
    { [nodes |-> <<>>, edges |-> <<>>],
      [nodes |-> <<>>, edges |-> << Edge("n1", NoHandle, "n4") >>],
      [nodes |-> << Node("n1", "start", BaseConfig),
                    Node("n4", "end", BaseConfig) >>,
       edges |-> <<>>],
      [nodes |-> << Node("n1", "start", BaseConfig),
                    Node("n4", "end", BaseConfig) >>,
       edges |-> << Edge("n1", NoHandle, "n4") >>],
      [nodes |-> << Node("n1", "llm", LLMLinked),
                    Node("n4", "end", BaseConfig) >>,
       edges |-> << Edge("n1", NoHandle, "n4") >>] }

Definitions == GraphDefinitions \cup DegenerateDefinitions

\* request.prompt
Prompts == { <<"4", "2">>, <<"O", "k">>, <<>> }

\* Provider maps a processor is constructed with: none, the wiring of
\* WorkflowService, and one that holds more than any node type declares
ProviderMaps ==
    { {}, ServiceWiring,
      {"llm_service", "rest_api_service", "cache_service"} }

\* ------------------------------------------------------------------ state
VARIABLES
    pc,          \* position of the request in WorkflowService.execute
    definition,  \* the workflow definition ControlTower returns
    services,    \* the provider map handed to the processor
    request,     \* request.prompt
    state,       \* the RunState
    current,     \* id of the node the processor is at
    instance,    \* the node instance under construction or in process
    visited,     \* ids of the nodes whose process has run, in order
    calls,       \* capability invocations made, in order
    error,       \* the error the request failed with
    steps,       \* node steps taken
    saved,       \* save_conversation calls
    cached,      \* cache_service.set calls
    peer,        \* the context of a second request while it is suspended
    stub,        \* what deterministic capability stubs answer, if any
    headers      \* the identity headers and credentials the request came with

vars == <<pc, definition, services, request, state, current, instance,
          visited, calls, error, steps, saved, cached, peer, stub, headers>>

NoNode == "<no node>"

NoInstance == [id |-> NoNode, type |-> NoNode, config |-> BaseConfig, injected |-> {}]

\* No second request is being served
NoPeer == [pc |-> "none"]

\* The collaborators are not stubbed
NoStub == [kind |-> "none"]

\* A request that has passed the permission dependency of the route
AuthorizedHeaders == [x_user_id |-> "uuid", x_service |-> "absent",
              credentials |-> "bearer", x_agent_id |-> "uuid",
              x_organization_id |-> "uuid"]

Init ==
    /\ pc = "get_agent"
    /\ definition \in Definitions
    /\ services \in ProviderMaps
    /\ request \in Prompts
    /\ state = EmptyState
    /\ current = NoNode
    /\ instance = NoInstance
    /\ visited = <<>>
    /\ calls = <<>>
    /\ error = "none"
    /\ steps = 0
    /\ saved = 0
    /\ cached = 0
    /\ peer = NoPeer
    /\ stub = NoStub
    /\ headers = AuthorizedHeaders

Fail(kind) ==
    /\ pc' = "failed"
    /\ error' = kind

\* Mutant: the request goes on to the workflow although the agent was not
\* found
GetAgent_NotChecked ==
    /\ pc = "get_agent"
    /\ \E agent \in {"found", "missing", "raises"} :
          IF agent = "found" THEN pc' = "get_workflow" /\ error' = error
          ELSE IF agent = "missing"
          THEN pc' = "get_workflow" /\ error' = "AgentNotFound"
          ELSE Fail("LookupError")
    /\ UNCHANGED <<headers, stub, peer, definition, services, request, state, current, instance,
                   visited, calls, steps, saved, cached>>

\* ------------------------------------------------------- WorkflowService
\* WorkflowService.execute step 1: get_agent
GetAgent ==
    /\ pc = "get_agent"
    /\ \E agent \in {"found", "missing", "raises"} :
          IF agent = "found" THEN pc' = "get_workflow" /\ error' = error
          ELSE IF agent = "missing" THEN Fail("AgentNotFound")
          ELSE Fail("LookupError")
    /\ UNCHANGED <<headers, stub, peer, definition, services, request, state, current, instance,
                   visited, calls, steps, saved, cached>>

\* WorkflowService.execute step 2: get_workflow
GetWorkflow ==
    /\ pc = "get_workflow"
    /\ \E workflow \in {"found", "missing", "raises"} :
          IF workflow = "found" THEN pc' = "execute_workflow" /\ error' = error
          ELSE IF workflow = "missing" THEN Fail("WorkflowNotFound")
          ELSE Fail("LookupError")
    /\ UNCHANGED <<headers, stub, peer, definition, services, request, state, current, instance,
                   visited, calls, steps, saved, cached>>

\* initial_state of WorkflowService.execute
InitialState(prompt) ==
    [k \in {"prompt", "runid", "userid", "agentid", "final_llm_response",
            "created_at"} |->
        CASE k = "prompt" -> prompt
          [] k = "final_llm_response" -> <<>>
          [] OTHER -> k]

\* Mutant: the validation forgets the edges
ValidDefinition_NodesOnly(d) == d.nodes # <<>>

\* The validation of WorkflowService.execute_workflow
ValidDefinition(d) == d.nodes # <<>> /\ d.edges # <<>>

\* WorkflowService.execute steps 3-5 and execute_workflow up to the
\* construction of the processor
ExecuteWorkflow ==
    /\ pc = "execute_workflow"
    /\ state' = InitialState(request)
    /\ IF ValidDefinition(definition)
       THEN pc' = "find_start" /\ error' = error
       ELSE Fail("ConfigurationError")
    /\ UNCHANGED <<headers, stub, peer, definition, services, request, current, instance,
                   visited, calls, steps, saved, cached>>

\* ----------------------------------------------------- WorkflowProcessor
\* app/workflow/base.py (WorkflowProcessor, WorkflowNode) and the Start and
\* End node classes are not among the source files; the loop below follows
\* section 4.1 of the specification.  The step budget of 4.1 is left out:
\* the specification records that the source does not enforce it, and
\* WorkflowService constructs the processor without one.  Where several
\* edges match, the first in list order is followed.
\* The node of definition d with the given id
NodeOf(d, id) == d.nodes[CHOOSE i \in 1..Len(d.nodes) : d.nodes[i].id = id]

HasStart(d) == \E i \in 1..Len(d.nodes) : d.nodes[i].type = "start"

\* The start node the executor begins at
StartNodeOf(d) ==
    d.nodes[CHOOSE i \in 1..Len(d.nodes) :
                /\ d.nodes[i].type = "start"
                /\ \A j \in 1..(i - 1) : d.nodes[j].type # "start"]

\* Mutant: the executor begins at the first node whatever its type
FindStart_FirstNode ==
    /\ pc = "find_start"
    /\ current' = definition.nodes[1].id
    /\ pc' = "instantiate"
    /\ UNCHANGED <<headers, stub, peer, definition, services, request, state, instance, visited,
                   calls, error, steps, saved, cached>>

\* Executor step 1: locate the start node, or fail before any node runs
FindStart ==
    /\ pc = "find_start"
    /\ IF HasStart(definition)
       THEN /\ current' = StartNodeOf(definition).id
            /\ pc' = "instantiate"
            /\ error' = error
       ELSE /\ Fail("ConfigurationError")
            /\ current' = current
    /\ UNCHANGED <<headers, stub, peer, definition, services, request, state, instance, visited,
                   calls, steps, saved, cached>>

\* The capabilities the executor hands to the constructor of a node type
Inject(type, provider) == { c \in NODE_REGISTRY[type] : c \in provider }

\* Executor steps 2-3: resolve the type, resolve its declared capabilities,
\* construct the node instance
Instantiate ==
    /\ pc = "instantiate"
    /\ LET node == NodeOf(definition, current) IN
       IF node.type \notin DOMAIN NODE_REGISTRY
       THEN Fail("ConfigurationError") /\ instance' = instance
       ELSE IF ~(NODE_REGISTRY[node.type] \subseteq services)
       THEN Fail("CapabilityError") /\ instance' = instance
       ELSE /\ instance' = [id |-> node.id, type |-> node.type,
                            config |-> node.config,
                            injected |-> Inject(node.type, services)]
            /\ pc' = "process"
            /\ error' = error
    /\ UNCHANGED <<headers, stub, peer, definition, services, request, state, current, visited,
                   calls, steps, saved, cached>>

\* Mutant: the executor starts the node behind the first outgoing edge
\* without waiting for the routing decision on the returned state
Processed_StartsNext(result) ==
    /\ pc = "process"
    /\ steps < MaxSteps
    /\ state' = result.state
    /\ calls' = calls \o result.calls
    /\ visited' = Append(visited, instance.id)
    /\ steps' = steps + 1
    /\ IF \E i \in 1..Len(definition.edges) : definition.edges[i].source = current
       THEN /\ pc' = "instantiate"
            /\ current' = definition.edges[
                    CHOOSE i \in 1..Len(definition.edges) :
                        definition.edges[i].source = current].target
       ELSE pc' = "route" /\ current' = current
    /\ UNCHANGED <<headers, stub, peer, definition, services, request, instance, error,
                   saved, cached>>

\* Executor step 3: state = node.process(state)
Processed(result) ==
    /\ pc = "process"
    /\ steps < MaxSteps
    /\ state' = result.state
    /\ calls' = calls \o result.calls
    /\ visited' = Append(visited, instance.id)
    /\ steps' = steps + 1
    /\ pc' = "route"
    /\ UNCHANGED <<headers, stub, peer, definition, services, request, current, instance, error,
                   saved, cached>>

ProcessStart ==
    /\ instance.type = "start"
    /\ Processed(StartProcess(state))

ProcessEnd ==
    /\ instance.type = "end"
    /\ Processed(EndProcess(state))

ProcessIfElse ==
    /\ instance.type = "if_else"
    /\ Processed(IfElseProcess(instance.id, instance.config, state))

ProcessSwitch ==
    /\ instance.type = "switch"
    /\ Processed(SwitchProcess(instance.id, instance.config, state))

ProcessLLM ==
    /\ instance.type = "llm"
    /\ \E lookup \in {"found", "disabled", "missing", "raises"},
          invoke \in {"ok", "raises"} :
          Processed(LLMProcess(instance.config, instance.injected, state,
                               lookup, invoke))

ProcessIntent ==
    /\ instance.type = "intent_extractor"
    /\ \E classify \in {"ok", "raises"} :
          Processed(IntentProcess(instance.config, state, classify))

\* What the collaborators of a rest_api node can yield, as
\* <<api, lookup, invoke, outs>>; an outcome process never gets to is fixed
RestApiOutcomes(retry_count) ==
    LET AllOuts == [1..(retry_count + 1) -> HttpOutcomes]
        NoOuts == [i \in 1..(retry_count + 1) |-> 200]
    IN  { <<api, "found", "ok", NoOuts>> : api \in {"disabled", "missing", "raises"} }
        \cup { <<"found", lookup, "ok", NoOuts>> : lookup \in {"missing", "raises"} }
        \cup { <<"found", lookup, invoke, NoOuts>> :
                 lookup \in {"found", "disabled"}, invoke \in {"malformed", "raises"} }
        \cup { <<"found", lookup, "ok", outs>> :
                 lookup \in {"found", "disabled"}, outs \in AllOuts }

ProcessRestApi ==
    /\ instance.type = "rest_api"
    /\ \E o \in RestApiOutcomes(instance.config.retry_count) :
          Processed(RestApiProcess(instance.config, instance.injected, state,
                                   o[1], o[2], o[3], o[4]))

\* Mutant: the routing signal is ignored when an edge is selected
EdgeMatches_AnyHandle(e, id, s) == e.source = id

\* Mutant: without a routing signal only an edge without sourceHandle is taken
EdgeMatches_DefaultOnly(e, id, s) ==
    /\ e.source = id
    /\ e.sourceHandle = (IF Has(s, "next_output_handle")
                         THEN s["next_output_handle"] ELSE NoHandle)

\* Executor step 4: does edge e leave node id under the routing signal of s
EdgeMatches(e, id, s) ==
    /\ e.source = id
    /\ Has(s, "next_output_handle") => e.sourceHandle = s["next_output_handle"]

\* Mutant: the order in which the edges are tried differs from one run of
\* the process to the next
NextEdge_OrderVaries(d, id, s) ==
    IF \E i \in 1..Len(d.edges) : EdgeMatches(d.edges[i], id, s)
    THEN CHOOSE i \in 1..Len(d.edges) :
            /\ EdgeMatches(d.edges[i], id, s)
            /\ \A j \in 1..Len(d.edges) :
                  EdgeMatches(d.edges[j], id, s) =>
                      IF saved = 0 THEN i <= j ELSE j <= i
    ELSE 0

\* Index of the edge the executor follows from node id, 0 when none matches
NextEdge(d, id, s) ==
    IF \E i \in 1..Len(d.edges) : EdgeMatches(d.edges[i], id, s)
    THEN CHOOSE i \in 1..Len(d.edges) :
            /\ EdgeMatches(d.edges[i], id, s)
            /\ \A j \in 1..(i - 1) : ~EdgeMatches(d.edges[j], id, s)
    ELSE 0

\* Mutant: an End node with an outgoing edge is followed
RunEnds_EdgesOnly(d, node, s) == NextEdge(d, node.id, s) = 0

\* Mutant: a node that reports success = false ends the run
RunEnds_StopsOnFailure(d, node, s) ==
    \/ node.type = "end"
    \/ NextEdge(d, node.id, s) = 0
    \/ Has(s, "success") /\ s["success"] = FALSE

\* The run is over after the node just processed
RunEnds(d, node, s) == node.type = "end" \/ NextEdge(d, node.id, s) = 0

\* Mutant: the executor goes on with the node that follows the current one
\* in the node list, not with the target of the selected edge
Route_ListOrder ==
    /\ pc = "route"
    /\ IF RunEnds(definition, instance, state)
       THEN pc' = "save" /\ current' = current
       ELSE /\ current' =
                 LET i == CHOOSE k \in 1..Len(definition.nodes) :
                                definition.nodes[k].id = current
                 IN  definition.nodes[IF i < Len(definition.nodes) THEN i + 1 ELSE 1].id
            /\ pc' = "instantiate"
    /\ UNCHANGED <<headers, stub, peer, definition, services, request, state, instance, visited,
                   calls, error, steps, saved, cached>>

\* Executor steps 4-6: terminate, or move to the target of the selected edge
Route ==
    /\ pc = "route"
    /\ IF RunEnds(definition, instance, state)
       THEN pc' = "save" /\ current' = current
       ELSE /\ current' = definition.edges[NextEdge(definition, current, state)].target
            /\ pc' = "instantiate"
    /\ UNCHANGED <<headers, stub, peer, definition, services, request, state, instance, visited,
                   calls, error, steps, saved, cached>>

\* Mutant: the conversation is saved a second time
SaveConversation_Twice ==
    /\ pc = "save"
    /\ saved' = saved + 2
    /\ pc' = "cache"
    /\ UNCHANGED <<headers, stub, peer, definition, services, request, state, current, instance,
                   visited, calls, error, steps, cached>>

\* WorkflowService.execute step 6: save_conversation
SaveConversation ==
    /\ pc = "save"
    /\ saved' = saved + 1
    /\ pc' = "cache"
    /\ UNCHANGED <<headers, stub, peer, definition, services, request, state, current, instance,
                   visited, calls, error, steps, cached>>

\* WorkflowService.execute steps 7-8: cache_service.set, return the response
CacheSet ==
    /\ pc = "cache"
    /\ cached' = cached + 1
    /\ pc' = "done"
    /\ UNCHANGED <<headers, stub, peer, definition, services, request, state, current, instance,
                   visited, calls, error, steps, saved>>

Next ==
    \/ GetAgent
    \/ GetWorkflow
    \/ ExecuteWorkflow
    \/ FindStart
    \/ Instantiate
    \/ ProcessStart
    \/ ProcessEnd
    \/ ProcessIfElse
    \/ ProcessSwitch
    \/ ProcessLLM
    \/ ProcessIntent
    \/ ProcessRestApi
    \/ Route
    \/ SaveConversation
    \/ CacheSet

Spec == Init /\ [][Next]_vars

\* ------------------------------------------- one node applied to a state
\* A run that has passed the start node n1 and is about to process n2, for
\* every configuration of a Conditional, Switch or ExternalCall node n2
\* drawn from the sets below.

\* Largest retry_count of a rest_api node
MaxRetry == 2

\* condition_operator / case operator: the operator table and a name that
\* is not in it
OperatorNames ==
    {"equals", "not_equals", "contains", "not_contains", "starts_with",
     "ends_with", "regex", "greater_than", "less_than", "greater_equal",
     "less_equal", "is_empty", "is_not_empty", "between"}

\* Values of the inspected field (request.prompt)
FieldValues ==
    { <<"4", "2">>, <<" ", "7">>, <<"O", "k">>, <<"n", "o">>, <<>> }

\* condition_value / case value
LiteralValues ==
    { <<"1", "0">>, <<"1", "0", "0">>, <<"4", "2">>, <<"o", "k">>, <<"(">>, <<>> }

\* condition_field / switch_field: a key of the state, a key the state
\* lacks, and the unset field
FieldNames == {"prompt", "amount", ""}

IfElseConfigs ==
    { [BaseConfig EXCEPT !.condition_field = f, !.condition_operator = op,
                         !.condition_value = v] :
        f \in FieldNames, op \in OperatorNames, v \in LiteralValues }

\* Cases of a switch node; the output label tells the position in the list
SwitchCaseOperators ==
    {"equals", "contains", "regex", "greater_than", "less_equal",
     "is_not_empty", "between"}

SwitchCaseValues == { <<"o", "k">>, <<"1", "0">>, <<"(">>, <<"n", "o">> }

CasesAt(output) ==
    { [value |-> v, operator |-> op, output |-> output] :
        v \in SwitchCaseValues, op \in SwitchCaseOperators }

SwitchCaseLists ==
    { <<>> } \cup { <<c>> : c \in CasesAt("path_ok") }
             \cup { <<c, d>> : c \in CasesAt("path_ok"), d \in CasesAt("path_2") }

SwitchConfigs ==
    { [BaseConfig EXCEPT !.switch_field = f, !.switch_cases = cases,
                         !.default_case = "path_default"] :
        f \in FieldNames, cases \in SwitchCaseLists }

RestApiConfigs ==
    { [BaseConfig EXCEPT !.link = "api1", !.intel_link = "llm1",
                         !.retry_count = r] : r \in 0..MaxRetry }

NodeConfigs ==
    { <<"if_else", c>> : c \in IfElseConfigs }
    \cup { <<"switch", c>> : c \in SwitchConfigs }
    \cup { <<"rest_api", c>> : c \in RestApiConfigs }

\* start n1 -> n2 -> end n4
NodeDefinition(type, config) ==
    [nodes |-> << Node("n1", "start", BaseConfig), Node("n2", type, config),
                  Node("n4", "end", BaseConfig) >>,
     edges |-> << Edge("n1", NoHandle, "n2"), Edge("n2", NoHandle, "n4") >>]

NodeInit ==
    /\ pc = "process"
    /\ \E k \in NodeConfigs :
          /\ definition = NodeDefinition(k[1], k[2])
          /\ instance = [id |-> "n2", type |-> k[1], config |-> k[2],
                         injected |-> NODE_REGISTRY[k[1]]]
    /\ services = {"llm_service", "rest_api_service"}
    /\ request \in FieldValues
    /\ state = InitialState(request)
    /\ current = "n2"
    /\ visited = <<"n1">>
    /\ calls = <<>>
    /\ error = "none"
    /\ steps = 1
    /\ saved = 0
    /\ cached = 0
    /\ peer = NoPeer
    /\ stub = NoStub
    /\ headers = AuthorizedHeaders

NodeNext ==
    \/ ProcessIfElse
    \/ ProcessSwitch
    \/ ProcessRestApi

NodeSpec == NodeInit /\ [][NodeNext]_vars

\* ------------------------------------------------- two concurrent requests
\* Two calls of WorkflowService.execute served by one event loop.  The
\* variables of a request (pc, definition, request, state, current,
\* instance, visited, error, steps) are the locals of the coroutine that is
\* running; peer holds the locals of the other one while it is suspended.
\* The provider map, the collaborators behind calls, and the conversation
\* store and cache behind saved and cached belong to the process.

\* The locals of the running request
Context ==
    [pc |-> pc, definition |-> definition, request |-> request,
     state |-> state, current |-> current, instance |-> instance,
     visited |-> visited, error |-> error, steps |-> steps]

\* Positions at which the running request awaits a collaborator or has
\* finished, so that the event loop can resume the other one
SuspensionPoints ==
    {"get_agent", "get_workflow", "process", "save", "cache", "done", "failed"}

\* Mutant: the two requests work on one state object
ContextSwitch_SharedState ==
    /\ peer.pc # "none"
    /\ pc \in SuspensionPoints
    /\ pc' = peer.pc
    /\ definition' = peer.definition
    /\ request' = peer.request
    /\ state' = state
    /\ current' = peer.current
    /\ instance' = peer.instance
    /\ visited' = peer.visited
    /\ error' = peer.error
    /\ steps' = peer.steps
    /\ peer' = Context
    /\ UNCHANGED <<services, calls, saved, cached, stub, headers>>

\* The event loop suspends the running request and resumes the other
ContextSwitch ==
    /\ peer.pc # "none"
    /\ pc \in SuspensionPoints
    /\ pc' = peer.pc
    /\ definition' = peer.definition
    /\ request' = peer.request
    /\ state' = peer.state
    /\ current' = peer.current
    /\ instance' = peer.instance
    /\ visited' = peer.visited
    /\ error' = peer.error
    /\ steps' = peer.steps
    /\ peer' = Context
    /\ UNCHANGED <<services, calls, saved, cached, stub, headers>>

\* Node kinds of the workflows the two requests run
ConcurrentKinds ==
    { <<"llm", LLMLinked>>, <<"if_else", IfElseAmount>>,
      <<"switch", SwitchStatus>>, <<"intent_extractor", BaseConfig>>,
      <<"rest_api", RestApiIntel>> }

ConcurrentDefinitions == { NodeDefinition(k[1], k[2]) : k \in ConcurrentKinds }

\* The prompts of the two requests
FirstPrompt == <<"4", "2">>

SecondPrompt == <<"O", "k">>

ConcurrentInit ==
    /\ pc = "get_agent"
    /\ definition \in ConcurrentDefinitions
    /\ services = {"llm_service", "rest_api_service"}
    /\ request = FirstPrompt
    /\ state = EmptyState
    /\ current = NoNode
    /\ instance = NoInstance
    /\ visited = <<>>
    /\ calls = <<>>
    /\ error = "none"
    /\ steps = 0
    /\ saved = 0
    /\ cached = 0
    /\ stub = NoStub
    /\ headers = AuthorizedHeaders
    /\ \E d \in ConcurrentDefinitions :
          peer = [pc |-> "get_agent", definition |-> d, request |-> SecondPrompt,
                  state |-> EmptyState, current |-> NoNode,
                  instance |-> NoInstance, visited |-> <<>>,
                  error |-> "none", steps |-> 0]

ConcurrentNext ==
    \/ Next
    \/ ContextSwitch

ConcurrentSpec == ConcurrentInit /\ [][ConcurrentNext]_vars

\* ----------------------------------------------------- a run and its rerun
\* The executor run of a request against deterministic capability stubs,
\* followed by a second run of the same definition with the same initial
\* state; peer keeps the context of the first run once it is over.

\* What a stub answers: the entity lookup and the invocation of the
\* language model, the classifier, and the outcome of an ExternalCall
CapabilityStubs ==
    { [kind |-> "deterministic", lookup |-> lookup, invoke |-> invoke,
       classify |-> classify, rest_api |-> o] :
        lookup \in {"found", "missing"}, invoke \in {"ok", "raises"},
        classify \in {"ok", "raises"}, o \in RestApiOutcomes(0) }

StubProcessLLM ==
    /\ instance.type = "llm"
    /\ Processed(LLMProcess(instance.config, instance.injected, state,
                            stub.lookup, stub.invoke))

StubProcessIntent ==
    /\ instance.type = "intent_extractor"
    /\ Processed(IntentProcess(instance.config, state, stub.classify))

StubProcessRestApi ==
    /\ instance.type = "rest_api"
    /\ Processed(RestApiProcess(instance.config, instance.injected, state,
                                stub.rest_api[1], stub.rest_api[2],
                                stub.rest_api[3], stub.rest_api[4]))

\* The caller runs the same request again once the first run is over
Rerun ==
    /\ peer.pc = "none"
    /\ pc \in {"done", "failed"}
    /\ peer' = Context
    /\ pc' = "execute_workflow"
    /\ state' = EmptyState
    /\ current' = NoNode
    /\ instance' = NoInstance
    /\ visited' = <<>>
    /\ error' = "none"
    /\ steps' = 0
    /\ UNCHANGED <<definition, services, request, calls, saved, cached, stub, headers>>

\* start n1 -> n2 -> {n3, n4}, n3 -> n4
RerunDefinitions ==
    { d \in GraphDefinitions :
        /\ Len(d.edges) = 4
        /\ d.edges[4].target = "n4"
        /\ d.nodes[3].type = "llm"
        /\ d.edges[2].sourceHandle \in {NoHandle, "n2-true"} }

RerunInit ==
    /\ pc = "execute_workflow"
    /\ definition \in RerunDefinitions
    /\ services = {"llm_service", "rest_api_service"}
    /\ request \in Prompts
    /\ state = EmptyState
    /\ current = NoNode
    /\ instance = NoInstance
    /\ visited = <<>>
    /\ calls = <<>>
    /\ error = "none"
    /\ steps = 0
    /\ saved = 0
    /\ cached = 0
    /\ peer = NoPeer
    /\ stub \in CapabilityStubs
    /\ headers = AuthorizedHeaders

RerunNext ==
    \/ ExecuteWorkflow
    \/ FindStart
    \/ Instantiate
    \/ ProcessStart
    \/ ProcessEnd
    \/ ProcessIfElse
    \/ ProcessSwitch
    \/ StubProcessLLM
    \/ StubProcessIntent
    \/ StubProcessRestApi
    \/ Route
    \/ SaveConversation
    \/ CacheSet
    \/ Rerun

RerunSpec == RerunInit /\ [][RerunNext]_vars

\* ================================================================ claims
\* Positions of the request after the processor has been constructed
InProcessor == pc \in {"find_start", "instantiate", "process", "route"}

Returned == pc \in {"save", "cache", "done"}

LastVisited == NodeOf(definition, visited[Len(visited)])

\* C1: a definition whose nodes list or edges list is empty fails with a
\* configuration error before any node is processed and before any
\* capability is invoked, and nothing is saved or cached for the request.
C1_EmptyDefinitionRejected ==
    (definition.nodes = <<>> \/ definition.edges = <<>>) =>
        /\ visited = <<>> /\ calls = <<>> /\ saved = 0 /\ cached = 0
        /\ ~InProcessor /\ ~Returned
        /\ (pc = "failed" /\ state # EmptyState) => error = "ConfigurationError"

C1_Witness ==
    /\ definition.nodes # <<>> /\ definition.edges = <<>>
    /\ pc = "failed" /\ error = "ConfigurationError"

NoStartNode(d) == \A i \in 1..Len(d.nodes) : d.nodes[i].type # "start"

\* C2: a definition with nodes and edges but no node of type "start" fails
\* with ConfigurationError before the process of any node is invoked.
C2_NoStartRejected ==
    (definition.nodes # <<>> /\ definition.edges # <<>> /\ NoStartNode(definition)) =>
        /\ visited = <<>> /\ calls = <<>>
        /\ pc \notin {"instantiate", "process", "route"} /\ ~Returned
        /\ (pc = "failed" /\ state # EmptyState) => error = "ConfigurationError"

C2_Witness ==
    /\ definition.nodes # <<>> /\ definition.edges # <<>> /\ NoStartNode(definition)
    /\ pc = "failed" /\ error = "ConfigurationError"

\* Position of node id in the nodes list of d
PositionOf(d, id) == CHOOSE i \in 1..Len(d.nodes) : d.nodes[i].id = id

\* Every edge leads to a node later in the nodes list: the graph has no cycle
ForwardOnly(d) ==
    \A i \in 1..Len(d.edges) :
        PositionOf(d, d.edges[i].source) < PositionOf(d, d.edges[i].target)

\* A key the process of a node of the given type writes on every path
EffectKeys(type) ==
    CASE type = "if_else" -> {"if_else_result"}
      [] type = "switch" -> {"switch_result"}
      [] type = "llm" -> {"llm_response"}
      [] type = "intent_extractor" -> {"intent_extraction_response"}
      [] type = "rest_api" -> {"success"}
      [] OTHER -> {}

\* C3: for a well-formed definition without cycles whose traversal reaches
\* an End node, the returned state holds the effects of every node visited
\* before the End node.
C3_EndStateKeepsEffects ==
    (/\ Returned /\ visited # <<>> /\ LastVisited.type = "end"
     /\ ForwardOnly(definition)) =>
        \A i \in 1..Len(visited) :
            EffectKeys(NodeOf(definition, visited[i]).type) \subseteq DOMAIN state

\* C4: the number of node steps of a run never exceeds the configured
\* maximum step count (a run caught in an edge cycle is aborted).
C4_StepBudgetEnforced == steps <= StepBudget

\* C5: when next_output_handle is present after a node, the next node is the
\* target of an edge from that node whose sourceHandle equals the handle.
C5_HandleSelectsEdge ==
    [][(pc = "route" /\ pc' = "instantiate" /\ Has(state, "next_output_handle")) =>
        \E i \in 1..Len(definition.edges) :
            /\ definition.edges[i].source = current
            /\ definition.edges[i].sourceHandle = state["next_output_handle"]
            /\ definition.edges[i].target = current']_vars

C5_Witness ==
    /\ pc = "instantiate" /\ visited = <<"n1", "n2">> /\ current = "n3"
    /\ Has(state, "next_output_handle") /\ state["next_output_handle"] = "n2-true"
    /\ \E i \in 1..Len(definition.edges) :
          /\ definition.edges[i].source = "n2"
          /\ definition.edges[i].sourceHandle = "n2-false"

\* C6: when next_output_handle is absent after a node that is not an End
\* node, the run continues exactly if some edge leaves that node, and the
\* next node is the target of such an edge, whatever its sourceHandle.
C6_DefaultEdge ==
    [][(pc = "route" /\ ~Has(state, "next_output_handle") /\ instance.type # "end") =>
        IF \E i \in 1..Len(definition.edges) : definition.edges[i].source = current
        THEN /\ pc' = "instantiate"
             /\ \E i \in 1..Len(definition.edges) :
                   /\ definition.edges[i].source = current
                   /\ definition.edges[i].target = current'
        ELSE pc' = "save"]_vars

C6_Witness ==
    /\ pc = "instantiate" /\ visited = <<"n1", "n2">> /\ current = "n3"
    /\ ~Has(state, "next_output_handle")
    /\ \A i \in 1..Len(definition.edges) :
          definition.edges[i].source = "n2" =>
              definition.edges[i].sourceHandle # NoHandle

\* Some edge matches the routing rule for the node just processed
SomeEdgeMatches ==
    \E i \in 1..Len(definition.edges) :
        /\ definition.edges[i].source = instance.id
        /\ Has(state, "next_output_handle") =>
              definition.edges[i].sourceHandle = state["next_output_handle"]

\* C7: the run ends, returning the current state, exactly when the node just
\* processed is an End node or no edge matches the routing rule; after an
\* End node no further node is processed.
C7_RunEndsExactly ==
    [][/\ pc = "route" =>
            /\ (pc' = "save") <=> (instance.type = "end" \/ ~SomeEdgeMatches)
            /\ state' = state
       /\ Returned => state' = state /\ visited' = visited
       /\ (visited # <<>> /\ LastVisited.type = "end") => visited' = visited]_vars

C7_Witness ==
    /\ pc = "done" /\ LastVisited.type = "end"
    /\ \E i \in 1..Len(definition.edges) :
          definition.edges[i].source = LastVisited.id

\* The node types of the registry in src/app/workflow/__init__.py
RegisteredTypes ==
    {"start", "llm", "end", "mcp_tool", "rest_api", "intent_extractor",
     "if_else", "switch"}

\* The dependencies the registry declares for a type
DeclaredFor(type) ==
    CASE type = "llm" -> {"llm_service"}
      [] type = "rest_api" -> {"rest_api_service", "llm_service"}
      [] OTHER -> {}

\* C8: when traversal reaches a node whose type is not in the registry the
\* run fails with ConfigurationError and that node is never processed.
C8_UnknownTypeRejected ==
    /\ \A i \in 1..Len(visited) :
          NodeOf(definition, visited[i]).type \in RegisteredTypes
    /\ (current # NoNode /\ NodeOf(definition, current).type \notin RegisteredTypes) =>
          \/ pc = "instantiate"
          \/ pc = "failed" /\ error = "ConfigurationError"

C8_Witness ==
    /\ pc = "failed" /\ error = "ConfigurationError"
    /\ visited = <<"n1">> /\ current = "n2"
    /\ NodeOf(definition, current).type = "database"

\* C9: a node instance is constructed with exactly the capabilities its type
\* declares: start, end, if_else and switch receive none, and no instance
\* receives an entry of the provider map that its type does not declare.
C9_LeastPrivilege ==
    instance.id # NoNode =>
        /\ instance.injected = DeclaredFor(instance.type)
        /\ instance.type \in {"start", "end", "if_else", "switch"} =>
              instance.injected = {}
        /\ (services \ DeclaredFor(instance.type)) \cap instance.injected = {}

C9_Witness ==
    /\ pc = "process" /\ instance.type = "llm"
    /\ instance.injected = {"llm_service"}
    /\ "cache_service" \in services

NodeReturned(type) == pc = "route" /\ instance.type = type

\* The handle the "true"/"false" edges of a Conditional node carry
BranchHandle(id, branch) == id \o "-" \o branch

\* C11: after IfElseNode.process returns, for every configuration and input
\* state, next_output_handle is "{nodeId}-true" or "{nodeId}-false".
C11_HandleIsPrefixedBranch ==
    NodeReturned("if_else") =>
        /\ Has(state, "next_output_handle")
        /\ state["next_output_handle"] \in
              {BranchHandle(instance.id, "true"), BranchHandle(instance.id, "false")}

\* The Conditional node reads a field the state lacks
FieldAbsent == ~Has(state, instance.config.condition_field)

\* The evaluation of the condition ends in an error branch: invalid regex
\* pattern, unknown operator, or a numeric operator on a non-numeric operand
EvaluationErrors ==
    /\ Has(state, instance.config.condition_field)
    /\ IfElseOperator(instance.config.condition_operator,
                      Strip(state[instance.config.condition_field]),
                      Strip(instance.config.condition_value)) = "error"

\* C12: when the condition field is absent from the state or the evaluation
\* errors, IfElseNode.process returns a state and routes to the false path
\* of the node, "{nodeId}-false".
C12_ErrorRoutesToFalsePath ==
    (NodeReturned("if_else") /\ (FieldAbsent \/ EvaluationErrors)) =>
        /\ Has(state, "next_output_handle")
        /\ state["next_output_handle"] = BranchHandle(instance.id, "false")

NumericOperators == {"greater_than", "less_than", "greater_equal", "less_equal"}

\* The comparison a numeric operator stands for
NumericHolds(op, x, y) ==
    CASE op = "greater_than" -> x > y
      [] op = "less_than" -> x < y
      [] op = "greater_equal" -> x >= y
      [] OTHER -> x <= y

\* C13: a Conditional node with a numeric operator, a numeric field and a
\* numeric literal routes to "{id}-true" exactly if the numeric comparison
\* of the field against the literal holds, and to "{id}-false" otherwise.
C13_NumericComparisonRoutes ==
    (/\ NodeReturned("if_else")
     /\ instance.config.condition_operator \in NumericOperators
     /\ Has(state, instance.config.condition_field)
     /\ IsNumeric(state[instance.config.condition_field])
     /\ IsNumeric(instance.config.condition_value)) =>
        state["next_output_handle"] =
            BranchHandle(instance.id,
                IF NumericHolds(instance.config.condition_operator,
                                FloatOf(state[instance.config.condition_field]),
                                FloatOf(instance.config.condition_value))
                THEN "true" ELSE "false")

\* "42" greater_than "100" routes to the false path
C13_Witness ==
    /\ NodeReturned("if_else")
    /\ instance.config.condition_field = "prompt"
    /\ instance.config.condition_operator = "greater_than"
    /\ state["prompt"] = <<"4", "2">>
    /\ instance.config.condition_value = <<"1", "0", "0">>
    /\ state["next_output_handle"] = "n2-false"

\* The Switch node evaluates its cases against a field the state holds
SwitchEvaluates ==
    /\ NodeReturned("switch")
    /\ instance.config.switch_field # ""
    /\ instance.config.switch_cases # <<>>
    /\ Has(state, instance.config.switch_field)

\* Case i of the Switch node applies a numeric operator to a field value or
\* a case value that float() rejects
NonNumericCase(i) ==
    /\ instance.config.switch_cases[i].operator \in NumericOperators
    /\ ~(/\ IsNumeric(state[instance.config.switch_field])
         /\ IsNumeric(instance.config.switch_cases[i].value))

\* C14: a numeric operator applied to a non-numeric field or literal
\* evaluates to false in a Conditional node and to no-match for that case in
\* a Switch node; in both the node completes its evaluation and returns.
C14_NonNumericOperandIsNoMatch ==
    /\ (/\ NodeReturned("if_else")
        /\ instance.config.condition_operator \in NumericOperators
        /\ Has(state, instance.config.condition_field)
        /\ ~(/\ IsNumeric(state[instance.config.condition_field])
             /\ IsNumeric(instance.config.condition_value))) =>
          /\ state["if_else_result"] = "false"
          /\ state["next_output_handle"] = BranchHandle(instance.id, "false")
          /\ state["success"] = TRUE
    /\ SwitchEvaluates =>
          /\ state["success"] = TRUE
          /\ \A i \in 1..Len(instance.config.switch_cases) :
                (/\ NonNumericCase(i)
                 /\ state["next_output_handle"] = instance.config.switch_cases[i].output) =>
                    \E j \in 1..Len(instance.config.switch_cases) :
                        /\ j # i
                        /\ ~NonNumericCase(j)
                        /\ instance.config.switch_cases[j].output =
                              instance.config.switch_cases[i].output

\* The first case compares the text "no" with greater_than and is passed
\* over; the second case decides the route
C14_Witness ==
    /\ SwitchEvaluates
    /\ Len(instance.config.switch_cases) = 2
    /\ state[instance.config.switch_field] = <<"n", "o">>
    /\ instance.config.switch_cases[1].operator = "greater_than"
    /\ instance.config.switch_cases[1].value = <<"1", "0">>
    /\ instance.config.switch_cases[2].operator = "is_not_empty"
    /\ state["next_output_handle"] = "path_2"

\* Case i of the Switch node matches the field value
CaseMatches(i) ==
    SwitchOperator(instance.config.switch_cases[i].operator,
                   Strip(state[instance.config.switch_field]),
                   Strip(instance.config.switch_cases[i].value)) = "true"

\* C15: the Switch node routes to the output label of the first case, in
\* list order, that matches; a later case that also matches never
\* determines the route.
C15_FirstMatchWins ==
    SwitchEvaluates =>
        \A i \in 1..Len(instance.config.switch_cases) :
            (CaseMatches(i) /\ \A j \in 1..(i - 1) : ~CaseMatches(j)) =>
                state["next_output_handle"] = instance.config.switch_cases[i].output

\* Both cases match and have different labels; the first one is taken
C15_Witness ==
    /\ SwitchEvaluates
    /\ Len(instance.config.switch_cases) = 2
    /\ CaseMatches(1) /\ CaseMatches(2)
    /\ instance.config.switch_cases[1].output # instance.config.switch_cases[2].output
    /\ state["next_output_handle"] = instance.config.switch_cases[1].output

\* The labels a Switch node is configured with
SwitchLabels ==
    {instance.config.default_case}
    \cup { instance.config.switch_cases[i].output :
             i \in 1..Len(instance.config.switch_cases) }

\* C16: when no case of a Switch node matches the field value, or the
\* switch field is absent from the state, next_output_handle is the
\* configured default label; in every outcome the handle is one of the
\* configured labels as written, without the node id in front.
C16_DefaultAndBareLabel ==
    NodeReturned("switch") =>
        /\ Has(state, "next_output_handle")
        /\ state["next_output_handle"] \in SwitchLabels
        /\ \A label \in SwitchLabels :
              state["next_output_handle"] # BranchHandle(instance.id, label)
        /\ ~Has(state, instance.config.switch_field) =>
              state["next_output_handle"] = instance.config.default_case
        /\ (SwitchEvaluates
            /\ \A i \in 1..Len(instance.config.switch_cases) : ~CaseMatches(i)) =>
              state["next_output_handle"] = instance.config.default_case

\* status "no" against the single case equals "ok" routes to the default
C16_Witness ==
    /\ SwitchEvaluates
    /\ Len(instance.config.switch_cases) = 1
    /\ instance.config.switch_cases[1].operator = "equals"
    /\ instance.config.switch_cases[1].value = <<"o", "k">>
    /\ instance.config.switch_cases[1].output = "path_ok"
    /\ state[instance.config.switch_field] = <<"n", "o">>
    /\ state["next_output_handle"] = "path_default"

\* ------------------------------------------------------- ExternalCall node
\* The HTTP attempts of the node just processed, in order
HttpAttempts == SelectSeq(calls, LAMBDA c : c \in { HttpCall(o) : o \in HttpOutcomes })

\* The response status an attempt was recorded with
StatusOf(call) == CHOOSE o \in HttpOutcomes : HttpCall(o) = call

\* The node issued its HTTP request and every attempt ended in the class
AllAttempts(class) ==
    /\ NodeReturned("rest_api")
    /\ HttpAttempts # <<>>
    /\ \A i \in 1..Len(HttpAttempts) : HttpAttempts[i] \in class

\* C17: when every attempt of the HTTP invocation yields a 5xx response
\* there are exactly retry_count + 1 attempts, and the returned state has
\* success = false and the status code of the last response.
C17_ServerErrorsRetried ==
    AllAttempts({"http:500", "http:503"}) =>
        /\ Len(HttpAttempts) = instance.config.retry_count + 1
        /\ state["success"] = FALSE
        /\ state["status_code"] = StatusOf(HttpAttempts[Len(HttpAttempts)])

\* Three attempts with retry_count 2; the 500 of the last attempt is returned
C17_Witness ==
    /\ NodeReturned("rest_api")
    /\ instance.config.retry_count = 2
    /\ HttpAttempts = <<"http:503", "http:503", "http:500">>
    /\ state["status_code"] = 500
    /\ state["success"] = FALSE

\* C18: a 4xx response is returned on the attempt that received it: no
\* attempt follows it whatever is left of the retry budget, and the
\* returned state has success = false and that status code.
C18_ClientErrorNotRetried ==
    NodeReturned("rest_api") =>
        \A i \in 1..Len(HttpAttempts) :
            HttpAttempts[i] = "http:404" =>
                /\ i = Len(HttpAttempts)
                /\ state["success"] = FALSE
                /\ state["status_code"] = 404

\* A 404 on the second of three possible attempts ends the request
C18_Witness ==
    /\ NodeReturned("rest_api")
    /\ instance.config.retry_count = 2
    /\ HttpAttempts = <<"http:503", "http:404">>
    /\ state["status_code"] = 404
    /\ state["success"] = FALSE

\* C19: when every attempt of the HTTP invocation fails at transport level
\* there are exactly retry_count + 1 attempts, after which process returns
\* a state with status code 0 and success = false that keeps the keys of
\* the state it was given; no exception leaves the node.
C19_TransportFailureReported ==
    AllAttempts({"http:failed"}) =>
        /\ Len(HttpAttempts) = instance.config.retry_count + 1
        /\ state["success"] = FALSE
        /\ state["status_code"] = 0
        /\ Has(state, "prompt")
        /\ error = "none"

C19_Witness ==
    /\ NodeReturned("rest_api")
    /\ instance.config.retry_count = 2
    /\ HttpAttempts = <<"http:failed", "http:failed", "http:failed">>
    /\ state["status_code"] = 0
    /\ state["success"] = FALSE

\* C20: a rest_api node without an intelligence language model (no
\* intel_link configured, or the LLM entity not found) fails the run with
\* CapabilityError; the failure is not encoded in a returned state.
C20_MissingIntelligenceIsFatal ==
    /\ ~Has(state, "requires_llm")
    /\ (/\ visited # <<>>
        /\ LastVisited.type = "rest_api"
        /\ LastVisited.config.intel_link = "") =>
          pc = "failed" /\ error = "CapabilityError"

\* ------------------------------------------------- failure and continuation
\* The operation of the node just processed failed, as far as the keys it
\* wrote tell: the apology text of LLMPromptNode, the error intent of
\* IntentExtractorNode, a missing field or configuration of the branching
\* nodes, an ExternalCall without a successful response
OperationFailed ==
    CASE instance.type = "llm" -> state["llm_response"] = ErrorText
      [] instance.type = "intent_extractor" ->
            state["intent_extraction_response"] \in {"no_user_input", "failed"}
      [] instance.type = "if_else" -> state["if_else_result"] = "error"
      [] instance.type = "switch" -> state["switch_result"] = "error"
      [] instance.type = "rest_api" ->
            ~Has(state, "status_code") \/ state["status_code"] # 200
      [] OTHER -> FALSE

\* C21: whenever the operation of a node failed, the state its process
\* returns has success = false and error set to a message.
C21_FailureIsEncoded ==
    (pc = "route" /\ OperationFailed) =>
        /\ Has(state, "success") /\ state["success"] = FALSE
        /\ Has(state, "error")

\* The node just processed returned success = false
NodeFailed == Has(state, "success") /\ state["success"] = FALSE

\* C22: after a node that returned success = false the executor selects the
\* edge as after a success: it moves to the target of a matching edge if
\* there is one and otherwise ends the run; in both cases no error is raised
\* and the state, with success = false, is handed on unchanged.
C22_FailureDoesNotStopRun ==
    [][(pc = "route" /\ NodeFailed) =>
          /\ state' = state
          /\ error' = error
          /\ IF instance.type # "end" /\ SomeEdgeMatches
             THEN /\ pc' = "instantiate"
                  /\ \E i \in 1..Len(definition.edges) :
                        /\ EdgeMatches(definition.edges[i], current, state)
                        /\ definition.edges[i].target = current'
             ELSE pc' = "save"]_vars

\* The run went on to n3 after n2 failed
C22_Witness ==
    /\ pc = "instantiate" /\ visited = <<"n1", "n2">> /\ current = "n3"
    /\ NodeFailed

\* ---------------------------------------------------------- concurrent runs
\* The states process of a node can return for input state s, over
\* everything its collaborators can yield
NodeResults(node, provider, s) ==
    LET injected == Inject(node.type, provider) IN
    CASE node.type = "start" -> { StartProcess(s).state }
      [] node.type = "end" -> { EndProcess(s).state }
      [] node.type = "if_else" -> { IfElseProcess(node.id, node.config, s).state }
      [] node.type = "switch" -> { SwitchProcess(node.id, node.config, s).state }
      [] node.type = "llm" ->
            { LLMProcess(node.config, injected, s, lookup, invoke).state :
                lookup \in {"found", "disabled", "missing", "raises"},
                invoke \in {"ok", "raises"} }
      [] node.type = "intent_extractor" ->
            { IntentProcess(node.config, s, classify).state :
                classify \in {"ok", "raises"} }
      [] OTHER ->
            { RestApiProcess(node.config, injected, s, o[1], o[2], o[3], o[4]).state :
                o \in RestApiOutcomes(node.config.retry_count) }

\* The final states of a run of definition d that is alone in the process,
\* from node id with state s, within k node steps
RECURSIVE FinalStatesAlone(_, _, _, _, _)
FinalStatesAlone(d, provider, id, s, k) ==
    IF k = 0 THEN {}
    ELSE UNION { IF RunEnds(d, NodeOf(d, id), s2) THEN { s2 }
                 ELSE FinalStatesAlone(d, provider,
                                       d.edges[NextEdge(d, id, s2)].target, s2, k - 1) :
                 s2 \in NodeResults(NodeOf(d, id), provider, s) }

\* The state of a request belongs to that request
OwnState(c) == Has(c.state, "prompt") => c.state["prompt"] = c.request

\* C23: with two requests interleaved at their suspension points, a step of
\* one request leaves the state and node instance of the other untouched,
\* a suspended request resumes with exactly what it was suspended with, and
\* the final state of each request is one the request produces when it runs
\* alone.
C23_RunsAreIsolated ==
    /\ [](/\ OwnState(Context)
          /\ peer.pc # "none" => OwnState(peer)
          /\ pc \in {"save", "cache", "done"} =>
                state \in FinalStatesAlone(definition, services,
                                           StartNodeOf(definition).id,
                                           InitialState(request), MaxSteps))
    /\ [][\/ peer' = peer
          \/ peer' = Context /\ Context' = peer]_vars

\* Both requests have returned, after the second one ran its nodes while
\* the first one was suspended inside the executor
C23_Witness ==
    /\ pc = "done" /\ peer.pc = "done"
    /\ Has(state, "llm_response") /\ Has(peer.state, "if_else_result")
    /\ state["prompt"] = SecondPrompt /\ peer.state["prompt"] = FirstPrompt

\* ------------------------------------------------------ one node at a time
\* The nodes processed so far form one path of the graph
SinglePath ==
    \A i \in 1..(Len(visited) - 1) :
        \E j \in 1..Len(definition.edges) :
            /\ definition.edges[j].source = visited[i]
            /\ definition.edges[j].target = visited[i + 1]

\* C24: within one run the next node is selected and instantiated only
\* after process of the current node, with its capability calls, has
\* returned; nodes are processed one at a time along a single path.
C24_OneNodeAtATime ==
    /\ [](SinglePath /\ steps = Len(visited))
    /\ [][/\ pc' = "instantiate" =>
              \/ pc = "find_start"
              \/ /\ pc = "route"
                 /\ visited # <<>> /\ visited[Len(visited)] = instance.id
                 /\ state' = state /\ calls' = calls /\ visited' = visited
          /\ (pc = "process" /\ pc' # "process") =>
              /\ pc' = "route"
              /\ current = instance.id
              /\ visited' = Append(visited, instance.id)
              /\ current' = current]_vars

\* Of the two branches behind n2 only n3 has been entered
C24_Witness ==
    /\ pc = "done" /\ visited = <<"n1", "n2", "n3">>
    /\ \E i \in 1..Len(definition.edges) :
          definition.edges[i].source = "n2" /\ definition.edges[i].target = "n4"
    /\ Has(state, "if_else_result") /\ Has(state, "llm_response")

\* ------------------------------------------------------------- persistence
\* C25: the completed run is persisted by one save_conversation call, made
\* once per request and only after the executor has returned the final
\* state; a request that fails makes neither that call nor the cache write.
C25_PersistedOnceAfterRun ==
    /\ (saved = 1) <=> (pc \in {"cache", "done"})
    /\ (cached = 1) <=> (pc = "done")
    /\ saved \in {0, 1} /\ cached \in {0, 1}
    /\ pc = "failed" => saved = 0 /\ cached = 0

\* A run that processed its nodes has been saved and cached once
C25_Witness ==
    /\ pc = "done" /\ saved = 1 /\ cached = 1
    /\ Len(visited) > 1 /\ LastVisited.type = "end"

\* ------------------------------------------------------------- determinism
\* Two states agree on every field but the timestamp
SameButTimestamp(a, b) ==
    /\ DOMAIN a = DOMAIN b
    /\ \A k \in (DOMAIN a) \ {"created_at"} : a[k] = b[k]

NonBranching == {"start", "llm", "intent_extractor", "rest_api"}

\* C27: a node that does not branch is always followed via its default
\* edge, also when an earlier Conditional or Switch node left a
\* next_output_handle in the state: a run ends after such a node only if
\* no edge leaves it.
C27_NoStaleRoutingSignal ==
    (Returned /\ visited # <<>> /\ LastVisited.type \in NonBranching) =>
        \A i \in 1..Len(definition.edges) :
            definition.edges[i].source # LastVisited.id

\* -------------------------------------------------------------- state frame
\* C28: the state process of a node returns still has every key of the
\* state the node was given, on failure paths as well.
C28_NodesKeepKeys ==
    [][(pc = "process" /\ pc' = "route") =>
          (DOMAIN state) \subseteq (DOMAIN state')]_vars

\* ------------------------------------------------------------------- wiring
\* C29: every capability a registered node type declares is in the provider
\* map WorkflowService hands to the executor, so under that wiring no node
\* type has an unresolved capability and no run fails with CapabilityError.
C29_WiringProvidesDeclared ==
    services = ServiceWiring =>
        /\ \A t \in DOMAIN NODE_REGISTRY : NODE_REGISTRY[t] \subseteq services
        /\ ~(pc = "failed" /\ error = "CapabilityError")

\* C30: whatever the outcomes of the attempts, 5xx responses and transport
\* failures draw from one budget: at most retry_count + 1 attempts are made,
\* every attempt but the last ended in a 5xx response or a transport failure,
\* the first response below 500 ends the invocation and is returned, the
\* invocation otherwise ends only when the budget is used up, and with
\* retry_count = 0 there is exactly one attempt.
C30_SharedRetryBudget ==
    (NodeReturned("rest_api") /\ HttpAttempts # <<>>) =>
        LET n == Len(HttpAttempts)
            last == HttpAttempts[n]
        IN  /\ n <= instance.config.retry_count + 1
            /\ \A i \in 1..(n - 1) :
                  HttpAttempts[i] \in {"http:500", "http:503", "http:failed"}
            /\ last \in {"http:200", "http:302", "http:404"} =>
                  state["status_code"] = StatusOf(last)
            /\ last \notin {"http:200", "http:302", "http:404"} =>
                  n = instance.config.retry_count + 1
            /\ instance.config.retry_count = 0 => n = 1

\* A 5xx response, then a transport failure, then a 200 on the last attempt
\* the budget of retry_count 2 allows
C30_Witness ==
    /\ NodeReturned("rest_api")
    /\ instance.config.retry_count = 2
    /\ HttpAttempts = <<"http:503", "http:failed", "http:200">>
    /\ state["status_code"] = 200
    /\ state["success"] = TRUE

\* ---------------------------------------------- ExternalCall request order
\* The capability invocations that are HTTP attempts
HttpCalls == { HttpCall(o) : o \in HttpOutcomes }

\* Position of the first HTTP attempt among the invocations, 0 if none
FirstHttp(made) ==
    IF \E i \in 1..Len(made) : made[i] \in HttpCalls
    THEN CHOOSE i \in 1..Len(made) :
            /\ made[i] \in HttpCalls
            /\ \A j \in 1..(i - 1) : made[j] \notin HttpCalls
    ELSE 0

\* C31: the ExternalCall node issues its HTTP request only after the
\* intelligence model returned a response that parsed as structured data:
\* an HTTP attempt is preceded by the model invocation and that invocation
\* yielded a JSON object, and when the invocation raises or yields a
\* malformed response no HTTP attempt is made and the returned state has
\* success = false, error set and status_code 0.
C31_RequestFollowsParsedResponse ==
    (pc = "process" /\ instance.type = "rest_api") =>
        \A o \in RestApiOutcomes(instance.config.retry_count) :
            LET r == RestApiProcess(instance.config, instance.injected, state,
                                    o[1], o[2], o[3], o[4])
                first == FirstHttp(r.calls)
            IN  /\ first > 0 =>
                      /\ o[3] = "ok"
                      /\ \E j \in 1..(first - 1) : r.calls[j] = "llm_invoke"
                /\ (o[3] \in {"malformed", "raises"}
                      /\ \E j \in 1..Len(r.calls) : r.calls[j] = "llm_invoke") =>
                      /\ first = 0
                      /\ r.state["success"] = FALSE
                      /\ Has(r.state, "error")
                      /\ r.state["status_code"] = 0

\* The node returned after the model was invoked and no HTTP attempt was made
C31_Witness ==
    /\ NodeReturned("rest_api")
    /\ calls # <<>>
    /\ calls[Len(calls)] = "llm_invoke"
    /\ HttpAttempts = <<>>
    /\ state["success"] = FALSE
    /\ state["error"] = "rest_api_error"
    /\ state["status_code"] = 0

\* C32: after an HTTP exchange of the ExternalCall node state.status_code
\* is the status of the returned response and state.success is true exactly
\* when that status is in 200..299; a response with a status below 500, a
\* 3xx response included, is returned on the attempt that received it.
C32_SuccessIsTwoHundreds ==
    (NodeReturned("rest_api") /\ HttpAttempts # <<>>) =>
        LET n == Len(HttpAttempts)
            last == HttpAttempts[n]
        IN  /\ last # "http:failed" =>
                  /\ state["status_code"] = StatusOf(last)
                  /\ state["success"] =
                        (200 <= StatusOf(last) /\ StatusOf(last) <= 299)
            /\ \A i \in 1..n :
                  (HttpAttempts[i] # "http:failed" /\ StatusOf(HttpAttempts[i]) < 500)
                      => i = n

\* A 302 on the first of three possible attempts is returned, without success
C32_Witness ==
    /\ NodeReturned("rest_api")
    /\ instance.config.retry_count = 2
    /\ HttpAttempts = <<"http:302">>
    /\ state["status_code"] = 302
    /\ state["success"] = FALSE

\* ------------------------------------------------- shared operator table
\* The Switch configuration with the single case (value, operator) of a
\* Conditional configuration on the same field
SingleCaseOf(cfg) ==
    [BaseConfig EXCEPT !.switch_field = cfg.condition_field,
                       !.switch_cases = << [value |-> cfg.condition_value,
                                            operator |-> cfg.condition_operator,
                                            output |-> "path_match"] >>,
                       !.default_case = "path_default"]

\* C33: Conditional and Switch apply the operator table alike: for every
\* operator, field value and literal the condition of a Conditional is true
\* exactly when a Switch whose single case has that value and operator
\* matches the case on the same state; string operators compare the
\* stripped string casts without regard to case.
C33_SharedOperatorTable ==
    NodeReturned("if_else") =>
        /\ (state["if_else_result"] = "true") <=>
              (SwitchProcess("n2", SingleCaseOf(instance.config),
                             state).state["next_output_handle"] = "path_match")
        /\ (instance.config.condition_operator = "equals"
              /\ Has(state, instance.config.condition_field)) =>
              ((state["if_else_result"] = "true") <=>
                  (Lower(Strip(state[instance.config.condition_field]))
                      = Lower(Strip(instance.config.condition_value))))

\* "Ok" equals "ok" for the Conditional, and the Switch case matches
C33_Witness ==
    /\ NodeReturned("if_else")
    /\ instance.config.condition_field = "prompt"
    /\ instance.config.condition_operator = "equals"
    /\ instance.config.condition_value = <<"o", "k">>
    /\ state["prompt"] = <<"O", "k">>
    /\ state["if_else_result"] = "true"
    /\ EvaluateSwitch(SingleCaseOf(instance.config), state) = "path_match"

\* ------------------------------------------------ cases that are skipped
\* Case i of the Switch node cannot be evaluated: its regex pattern is
\* invalid, its operator is not in the table, or a numeric operator meets a
\* non-numeric operand
CaseSkipped(i) ==
    SwitchOperator(instance.config.switch_cases[i].operator,
                   Strip(state[instance.config.switch_field]),
                   Strip(instance.config.switch_cases[i].value)) = "error"

\* C34: a case of the Switch node that cannot be evaluated is skipped and
\* the following cases are still evaluated: a later case that matches, with
\* no match before it, determines the route, the default label is the route
\* only if no case matches, and the node reports success.
C34_SkippedCaseDoesNotEndEvaluation ==
    SwitchEvaluates =>
        LET cases == instance.config.switch_cases IN
        /\ \A i \in 1..Len(cases) : \A j \in (i + 1)..Len(cases) :
              (/\ CaseSkipped(i)
               /\ CaseMatches(j)
               /\ \A k \in 1..(j - 1) : ~CaseMatches(k)) =>
                  state["next_output_handle"] = cases[j].output
        /\ (state["next_output_handle"] = instance.config.default_case) <=>
              (\A i \in 1..Len(cases) : ~CaseMatches(i))
        /\ (\E i \in 1..Len(cases) : CaseSkipped(i)) => state["success"] = TRUE

\* The first case has an invalid regex pattern; the second one matches
C34_Witness ==
    /\ SwitchEvaluates
    /\ Len(instance.config.switch_cases) = 2
    /\ instance.config.switch_cases[1].operator = "regex"
    /\ instance.config.switch_cases[1].value = <<"(">>
    /\ CaseSkipped(1)
    /\ CaseMatches(2)
    /\ state["next_output_handle"] = "path_2"

\* ------------------------------------------------------- the success flag
\* The node just processed completed its own operation: the Conditional and
\* the Switch evaluated, the LLM answered, the classifier classified, the
\* HTTP exchange took place
OperationCompleted ==
    CASE instance.type = "if_else" -> state["if_else_result"] \in {"true", "false"}
      [] instance.type = "switch" -> state["switch_result"] # "error"
      [] instance.type = "llm" -> state["llm_response"] = ResponseText
      [] instance.type = "intent_extractor" ->
            state["intent_extraction_response"] = "agent_creation"
      [] instance.type = "rest_api" ->
            Has(state, "response") /\ state["response"] = "data"
      [] OTHER -> FALSE

\* The outcome of the completed operation: that of the HTTP exchange for an
\* ExternalCall node, success for the others
OperationOutcome ==
    IF instance.type = "rest_api"
    THEN 200 <= state["status_code"] /\ state["status_code"] <= 299
    ELSE TRUE

\* C35: a node that completes its own operation writes success with its own
\* outcome, whatever success was on entry; the flag of an earlier node that
\* failed does not persist.
C35_SuccessIsNodeLocal ==
    [][(pc = "process" /\ pc' = "route") =>
          (OperationCompleted' =>
              /\ Has(state', "success")
              /\ state'["success"] = OperationOutcome')]_vars

\* The classifier of n2 failed, the LLM call of n3 succeeded, and the final
\* state of the run has success = true next to the error n2 left
C35_Witness ==
    /\ pc = "done"
    /\ visited = <<"n1", "n2", "n3", "n4">>
    /\ Has(state, "intent_extraction_response")
    /\ state["intent_extraction_response"] = "failed"
    /\ state["error"] = "classifier_error"
    /\ state["llm_response"] = ResponseText
    /\ state["success"] = TRUE

\* ----------------------------------------------------------- the run path
\* C36: the nodes processed in a run form a path of the definition's graph
\* from the start node: the first one has type "start" and every later one
\* is the target of an edge whose source is the node processed before it.
C36_ProcessedNodesFormPath ==
    visited # <<>> =>
        /\ NodeOf(definition, visited[1]).type = "start"
        /\ \A i \in 2..Len(visited) :
              \E k \in 1..Len(definition.edges) :
                  /\ definition.edges[k].source = visited[i - 1]
                  /\ definition.edges[k].target = visited[i]

\* A run that went from n3 back to n2
C36_Witness ==
    /\ Len(visited) >= 4
    /\ visited[1] = "n1" /\ visited[2] = "n2" /\ visited[3] = "n3"
    /\ visited[4] = "n2"
    /\ \E k \in 1..Len(definition.edges) :
          definition.edges[k].source = "n3" /\ definition.edges[k].target = "n2"

\* ------------------------------------------- the lifetime of one instance
\* A node instance whose process is called several times, as a caller that
\* keeps the instance would do, and the construction of a new instance of
\* the same node.  instance.memo holds the attributes the constructor sets
\* to None and False and the fetch methods assign.

\* Largest number of process calls on the instances of one node
MaxCalls == 3

\* The memo attributes as __init__ of LLMPromptNode and RestApiNode set them
FreshMemo ==
    [rest_api_initialized |-> FALSE, rest_api_entity |-> None,
     llm_initialized |-> FALSE, llm_entity |-> None]

\* Mutant: the entity is looked up on every call
LLMFetch_AlwaysLooksUp(cfg, injected, memo, lookup) ==
    IF "llm_service" \notin injected \/ cfg.link = ""
    THEN [memo |-> memo, ok |-> FALSE, calls |-> <<>>]
    ELSE [memo |-> CASE lookup = "found" ->
                          [memo EXCEPT !.llm_entity = cfg.link,
                                       !.llm_initialized = TRUE]
                     [] lookup = "disabled" -> [memo EXCEPT !.llm_entity = "disabled"]
                     [] lookup = "missing" -> [memo EXCEPT !.llm_entity = None]
                     [] OTHER -> memo,
          ok |-> lookup = "found",
          calls |-> <<"llm_lookup">>]

\* LLMPromptNode._fetch_llm_entity: the attributes after the call, whether
\* it returned (ok) or raised, and the lookups it made
LLMFetch(cfg, injected, memo, lookup) ==
    IF memo.llm_initialized
    THEN [memo |-> memo, ok |-> TRUE, calls |-> <<>>]
    ELSE IF "llm_service" \notin injected \/ cfg.link = ""
    THEN [memo |-> memo, ok |-> FALSE, calls |-> <<>>]
    ELSE [memo |-> CASE lookup = "found" ->
                          [memo EXCEPT !.llm_entity = cfg.link,
                                       !.llm_initialized = TRUE]
                     [] lookup = "disabled" -> [memo EXCEPT !.llm_entity = "disabled"]
                     [] lookup = "missing" -> [memo EXCEPT !.llm_entity = None]
                     [] OTHER -> memo,
          ok |-> lookup = "found",
          calls |-> <<"llm_lookup">>]

\* LLMPromptNode.process on an instance with the given attributes
LLMProcessMemo(cfg, injected, s, memo, lookup, invoke) ==
    LET prompt == IF Has(s, "processed_prompt") THEN s["processed_prompt"]
                  ELSE IF Has(s, "prompt") THEN s["prompt"] ELSE <<>>
        fetch == LLMFetch(cfg, injected, memo, lookup)
    IN  IF prompt = <<>>
        THEN [state |-> LLMProcess(cfg, injected, s, lookup, invoke).state,
              calls |-> <<>>, memo |-> memo]
        ELSE [state |-> LLMProcess(cfg, injected, s,
                                   IF fetch.ok THEN "found"
                                   ELSE IF lookup = "found" THEN "missing" ELSE lookup,
                                   invoke).state,
              calls |-> fetch.calls \o (IF fetch.ok THEN <<"llm_invoke">> ELSE <<>>),
              memo |-> fetch.memo]

\* RestApiNode._fetch_rest_api_entity
RestApiFetch(cfg, injected, memo, api) ==
    IF memo.rest_api_initialized
    THEN [memo |-> memo, ok |-> TRUE, calls |-> <<>>]
    ELSE IF "rest_api_service" \notin injected \/ cfg.link = ""
    THEN [memo |-> memo, ok |-> FALSE, calls |-> <<>>]
    ELSE [memo |-> CASE api = "found" ->
                          [memo EXCEPT !.rest_api_entity = cfg.link,
                                       !.rest_api_initialized = TRUE]
                     [] api = "disabled" -> [memo EXCEPT !.rest_api_entity = "disabled"]
                     [] api = "missing" -> [memo EXCEPT !.rest_api_entity = None]
                     [] OTHER -> memo,
          ok |-> api = "found",
          calls |-> <<"api_lookup">>]

\* RestApiNode._fetch_llm_entity: every path that looks up or gives up sets
\* llm_initialized; the entity is not checked for being enabled
RestApiFetchIntel(cfg, injected, memo, lookup) ==
    IF memo.llm_initialized
    THEN [memo |-> memo, calls |-> <<>>]
    ELSE IF cfg.intel_link = "" \/ "llm_service" \notin injected
    THEN [memo |-> [memo EXCEPT !.llm_initialized = TRUE], calls |-> <<>>]
    ELSE [memo |-> [memo EXCEPT !.llm_initialized = TRUE,
                                !.llm_entity =
                                    IF lookup \in {"found", "disabled"}
                                    THEN cfg.intel_link ELSE None],
          calls |-> <<"llm_lookup">>]

\* RestApiNode.process on an instance with the given attributes
RestApiProcessMemo(cfg, injected, s, memo, api, lookup, invoke, outs) ==
    LET fetch == RestApiFetch(cfg, injected, memo, api)
        intel == IF fetch.ok
                 THEN RestApiFetchIntel(cfg, injected, fetch.memo, lookup)
                 ELSE [memo |-> fetch.memo, calls |-> <<>>]
        r == RestApiProcess(cfg, injected, s,
                            IF fetch.ok THEN "found"
                            ELSE IF api = "found" THEN "missing" ELSE api,
                            IF intel.memo.llm_entity # None THEN "found" ELSE "missing",
                            invoke, outs)
    IN  [state |-> r.state,
         calls |-> fetch.calls \o intel.calls
                   \o SelectSeq(r.calls,
                                LAMBDA c : c \notin {"api_lookup", "llm_lookup"}),
         memo |-> intel.memo]

\* The instance processed a state once more
ProcessedAgain(result) ==
    /\ pc = "process"
    /\ steps < MaxCalls
    /\ state' = result.state
    /\ calls' = calls \o result.calls
    /\ instance' = [instance EXCEPT !.memo = result.memo]
    /\ visited' = Append(visited, instance.id)
    /\ steps' = steps + 1
    /\ UNCHANGED <<headers, stub, peer, pc, definition, services, request, current, error,
                   saved, cached>>

ProcessLLMAgain ==
    /\ instance.type = "llm"
    /\ \E lookup \in {"found", "disabled", "missing", "raises"},
          invoke \in {"ok", "raises"} :
          ProcessedAgain(LLMProcessMemo(instance.config, instance.injected, state,
                                        instance.memo, lookup, invoke))

ProcessRestApiAgain ==
    /\ instance.type = "rest_api"
    /\ \E o \in RestApiOutcomes(instance.config.retry_count) :
          ProcessedAgain(RestApiProcessMemo(instance.config, instance.injected,
                                            state, instance.memo,
                                            o[1], o[2], o[3], o[4]))

\* Mutant: the new instance starts with the attributes of the old one
Reinstantiate_SharedMemo ==
    /\ pc = "process"
    /\ instance.memo # FreshMemo
    /\ state' = InitialState(request)
    /\ UNCHANGED <<headers, stub, peer, pc, definition, services, request, current, instance,
                   visited, calls, error, steps, saved, cached>>

\* The constructor of the node class: a new instance of the node for the
\* next visit or the next run, which starts from a new initial state
Reinstantiate ==
    /\ pc = "process"
    /\ instance.memo # FreshMemo
    /\ instance' = [instance EXCEPT !.memo = FreshMemo]
    /\ state' = InitialState(request)
    /\ UNCHANGED <<headers, stub, peer, pc, definition, services, request, current,
                   visited, calls, error, steps, saved, cached>>

\* Node kinds that hold a reference entity
InstanceKinds ==
    { <<"llm", LLMLinked>>, <<"rest_api", RestApiIntel>>,
      <<"rest_api", RestApiNoIntel>> }

InstanceInit ==
    /\ pc = "process"
    /\ \E k \in InstanceKinds :
          /\ definition = NodeDefinition(k[1], k[2])
          /\ instance = [id |-> "n2", type |-> k[1], config |-> k[2],
                         injected |-> NODE_REGISTRY[k[1]], memo |-> FreshMemo]
    /\ services = {"llm_service", "rest_api_service"}
    /\ request \in Prompts
    /\ state = InitialState(request)
    /\ current = "n2"
    /\ visited = <<>>
    /\ calls = <<>>
    /\ error = "none"
    /\ steps = 0
    /\ saved = 0
    /\ cached = 0
    /\ peer = NoPeer
    /\ stub = NoStub
    /\ headers = AuthorizedHeaders

InstanceNext ==
    \/ ProcessLLMAgain
    \/ ProcessRestApiAgain
    \/ Reinstantiate

InstanceSpec == InstanceInit /\ [][InstanceNext]_vars

\* ------------------------------------------------------ memoized entities
\* The instance has fetched the entity its link refers to: the language
\* model of an LLM node, the API descriptor of a rest_api node
RefInitialized(inst) ==
    IF inst.type = "llm" THEN inst.memo.llm_initialized
    ELSE inst.memo.rest_api_initialized

RefEntity(inst) ==
    IF inst.type = "llm" THEN inst.memo.llm_entity ELSE inst.memo.rest_api_entity

\* The lookup of that entity through the capability
RefLookup(inst) == IF inst.type = "llm" THEN "llm_lookup" ELSE "api_lookup"

\* How often call c occurs in seq
Occurrences(seq, c) == Len(SelectSeq(seq, LAMBDA x : x = c))

RunPositions == {"execute_workflow", "find_start", "instantiate", "process", "route"}

\* The positions a request can move to from position p
FollowingPositions(p) ==
    CASE p = "get_agent" -> {"get_workflow", "failed"}
      [] p = "get_workflow" -> {"execute_workflow", "failed"}
      [] p \in RunPositions -> RunPositions \cup {"save", "failed"}
      [] p = "save" -> {"cache"}
      [] p = "cache" -> {"done"}
      [] OTHER -> {}

\* C38: WorkflowService.execute fetches the agent, fetches the workflow,
\* runs the graph, saves the conversation, writes the cache and returns, in
\* this order; a request whose agent or workflow is not found fails before
\* a node is processed and before anything is saved or cached.
C38_ExecuteOrder ==
    /\ [](/\ (pc \in {"get_agent", "get_workflow"}
                \/ error \in {"AgentNotFound", "WorkflowNotFound"}) =>
                /\ visited = <<>> /\ calls = <<>> /\ state = EmptyState
                /\ saved = 0 /\ cached = 0
          /\ error \in {"AgentNotFound", "WorkflowNotFound"} => pc = "failed"
          /\ pc \in RunPositions => saved = 0 /\ cached = 0
          /\ pc = "cache" => saved = 1 /\ cached = 0
          /\ pc = "done" => saved = 1 /\ cached = 1)
    /\ [][/\ pc' # pc => pc' \in FollowingPositions(pc)
          /\ pc' = "save" => pc = "route"
          /\ (pc = "get_workflow" /\ pc' = "failed") =>
                error' \in {"WorkflowNotFound", "LookupError"}
          /\ (pc = "get_agent" /\ pc' = "failed") =>
                error' \in {"AgentNotFound", "LookupError"}]_vars

\* The workflow of a found agent was not found
C38_Witness ==
    /\ pc = "failed" /\ error = "WorkflowNotFound"
    /\ visited = <<>> /\ saved = 0 /\ cached = 0

\* ------------------------------------------- the permission dependency
\* The dependencies FastAPI resolves for POST /execute before the route
\* handler calls WorkflowService.execute: get_current_user_id,
\* _get_agent_id_from_request and check_permission of RequireAgentExecute.

\* What a request can carry in the headers the dependencies read
RequestHeaders ==
    [x_user_id : {"absent", "uuid", "malformed"},
     x_service : {"absent", "present"},
     credentials : {"absent", "bearer"},
     x_agent_id : {"absent", "uuid", "malformed"},
     x_organization_id : {"absent", "uuid", "malformed"}]

\* AuthorizationService.check_permission: "For now, simply return True"
CheckPermission(resource, action) == TRUE

\* AuthorizationService.authorize_request
AuthorizeRequest(resource, action) == CheckPermission(resource, action)

\* get_current_user_id; token is what auth_client.validate_token yields
GetCurrentUserId ==
    /\ pc = "authenticate"
    /\ IF headers.x_user_id # "absent" /\ headers.x_service = "present"
       THEN IF headers.x_user_id = "uuid"
            THEN pc' = "agent_header" /\ error' = error
            ELSE Fail("Http400")
       ELSE IF headers.credentials = "absent"
       THEN Fail("Http401")
       ELSE \E token \in {"valid", "no_id", "malformed_id", "raises"} :
               IF token = "valid"
               THEN pc' = "agent_header" /\ error' = error
               ELSE Fail("Http401")
    /\ UNCHANGED <<headers, stub, peer, definition, services, request, state, current,
                   instance, visited, calls, steps, saved, cached>>

\* _get_agent_id_from_request
GetAgentIdFromRequest ==
    /\ pc = "agent_header"
    /\ IF headers.x_agent_id = "uuid"
       THEN pc' = "check_permission" /\ error' = error
       ELSE Fail("Http400")
    /\ UNCHANGED <<headers, stub, peer, definition, services, request, state, current,
                   instance, visited, calls, steps, saved, cached>>

\* check_permission of create_permission_dependency("agent", "execute"); a
\* request without x-organization-id is checked for the default organization
CheckPermissionDependency ==
    /\ pc = "check_permission"
    /\ IF headers.x_organization_id = "malformed"
       THEN Fail("Http400")
       ELSE IF ~AuthorizeRequest("agent", "execute")
       THEN Fail("Http403")
       ELSE pc' = "get_agent" /\ error' = error
    /\ UNCHANGED <<headers, stub, peer, definition, services, request, state, current,
                   instance, visited, calls, steps, saved, cached>>

\* A request arrives at POST /execute
AuthInit ==
    /\ pc = "authenticate"
    /\ headers \in RequestHeaders
    /\ definition \in DegenerateDefinitions
    /\ services = ServiceWiring
    /\ request \in Prompts
    /\ state = EmptyState
    /\ current = NoNode
    /\ instance = NoInstance
    /\ visited = <<>>
    /\ calls = <<>>
    /\ error = "none"
    /\ steps = 0
    /\ saved = 0
    /\ cached = 0
    /\ peer = NoPeer
    /\ stub = NoStub

\* The dependencies, then the first steps of WorkflowService.execute
AuthNext ==
    \/ GetCurrentUserId
    \/ GetAgentIdFromRequest
    \/ CheckPermissionDependency
    \/ GetAgent
    \/ GetWorkflow

AuthSpec == AuthInit /\ [][AuthNext]_vars

\* ------------------------------------------------------- authorization
\* WorkflowService.execute has been called for the request
ExecuteReached ==
    \/ pc \in {"get_agent", "get_workflow", "execute_workflow"}
    \/ pc = "failed" /\ error \in {"AgentNotFound", "WorkflowNotFound", "LookupError"}

\* C39: WorkflowService.execute is reached only by a request that came with
\* credentials and a valid agent id and for which the permission check for
\* (agent, execute) returned true; a request with no credentials, an invalid
\* agent id or a denied permission never reaches it.
C39_ExecuteOnlyWhenAuthorized ==
    ExecuteReached =>
        /\ headers.credentials = "bearer"
        /\ headers.x_agent_id = "uuid"
        /\ AuthorizeRequest("agent", "execute")

====
